---- MODULE Spec2Model ----
(***************************************************************************)
(* PMAT (persistent memory analysis tool): the cache / write-buffer        *)
(* simulator of pmat_main.c, its registered-region table, the fence and    *)
(* flush callbacks, the crash simulator's counters and the exit report.    *)
(*                                                                         *)
(* Scaling.  The tool's cache line has 64 bytes and its store callback a   *)
(* 64-bit value; the model keeps the code's arithmetic but runs it on a    *)
(* line of CACHELINE_SIZE bytes and on small values, so that TLC can       *)
(* enumerate the states.  Line addresses are a - (a % CACHELINE_SIZE),     *)
(* which is a & ~(CACHELINE_SIZE - 1) for every power of two.              *)
(***************************************************************************)
EXTENDS Integers, Sequences, FiniteSets, TLC

(***************************************************************************)
(* Bounds of the model.                                                    *)
(***************************************************************************)
\* bytes per cache line (64 in the tool)
CACHELINE_SIZE == 4
\* capacity of the cache, in entries, before the random eviction starts
NUM_CACHE_ENTRIES == 1
\* capacity of the write buffer, in entries, before its random eviction starts
NUM_WB_ENTRIES == 1
\* verifications after which the model stops simulating crashes
MaxVerifications == 1
\* callbacks and requests a recorded scenario has after its register request
MaxHist == 4
MaxSamples == 3
MaxFiles == 100
MaxDepth == 2
MaxIp == 3

(***************************************************************************)
(* Inputs.                                                                 *)
(***************************************************************************)
Tids == {1, 2}
NoVerifier == "NULL"
\* the name of a register request that passes a null pointer
NullName == "NULL"
\* the verifier's ways to end: exit 0, exit 0xBD, another exit code, a signal
VerifierOutcomes == {"exit0", "exitBD", "exitOther", "signaled"}

\* first byte of the region the client registers, and its number of lines
RegionBase == 2 * CACHELINE_SIZE
RegionLines == NUM_CACHE_ENTRIES + 1
RegionInputs ==
    { [name |-> "r1", addr |-> RegionBase, size |-> RegionLines * CACHELINE_SIZE] }
\* the register requests of the client that uses the whole table: the region
\* above, a region that ends where it starts, a base that is not aligned,
\* and a null name
LowRegion == [name |-> "r2", addr |-> RegionBase - CACHELINE_SIZE, size |-> CACHELINE_SIZE]
RegistryRegions ==
    RegionInputs \cup
    { LowRegion,
      [name |-> "r3", addr |-> RegionBase + 1, size |-> CACHELINE_SIZE],
      [name |-> NullName, addr |-> RegionBase, size |-> CACHELINE_SIZE] }
Names == { r.name : r \in RegionInputs \cup RegistryRegions } \ {NullName}

\* values of the stores, all with non-zero bytes
ValX == 17 * 256 + 34      \* 0x1122
ValY == 51 * 256 + 68      \* 0x3344
ValZ == 5 * 17             \* 0x55
ValW == 6 * 17             \* 0x66

\* the stores of the concurrent client: the first two bytes and the third
\* byte of the first line, the first byte of every other line, and one store
\* to memory that is not registered; ctx is the stack trace of the store
StoreInputs ==
    { [addr |-> RegionBase, size |-> 2, value |-> ValX, ctx |-> 1],
      [addr |-> RegionBase + 2, size |-> 1, value |-> ValZ, ctx |-> 1],
      [addr |-> 0, size |-> 1, value |-> ValW, ctx |-> 1] }
    \cup { [addr |-> RegionBase + l * CACHELINE_SIZE, size |-> 1, value |-> ValW, ctx |-> 2]
             : l \in 1..(RegionLines - 1) }
FlushInputs == { RegionBase + l * CACHELINE_SIZE + 1 : l \in 0..(RegionLines - 1) }

\* the stores, flushes and transient ranges of the client that uses the
\* whole table: a store to the first bytes of the upper region, which is the
\* first byte after the lower region; a transient range at the first bytes of
\* the upper region and one below both regions
RegistryStores ==
    { [addr |-> RegionBase, size |-> 2, value |-> ValX, ctx |-> 1] }
RegistryFlushes == { RegionBase }
RegistryTransients ==
    { [addr |-> RegionBase, size |-> 2], [addr |-> 0, size |-> 1] }
RegistryTid == 1

\* the stores and flushes of the recorded scenarios, all to the first line
ScenarioStores ==
    { [addr |-> RegionBase, size |-> 2, value |-> ValX, ctx |-> 1],
      [addr |-> RegionBase, size |-> 2, value |-> ValY, ctx |-> 1],
      [addr |-> RegionBase + 2, size |-> 1, value |-> ValZ, ctx |-> 1] }
ScenarioFlushes == { RegionBase }

\* what a read of the never-written dirtyBits of a new node can give: the
\* node's memory is zero, or still holds the mask of a freed entry
UninitDirtyBits == { {}, 0..(CACHELINE_SIZE - 1) }
\* client requests without a case of their own in the handler: the reserved
\* codes and WRITE_STATS of the tool's enum, a code of the tool's range past
\* the enum, and a request of another tool
ReservedCodes ==
    { "RESERVED1", "RESERVED2", "RESERVED3", "RESERVED4", "RESERVED5", "RESERVED6",
      "RESERVED7", "RESERVED8" }
ToolCodes == ReservedCodes \cup { "WRITE_STATS", "PC_PAST_ENUM" }
OtherCodes == ToolCodes \cup { "OTHER_TOOL" }

\* the words of the monitor commands the client sends
MonitorCommands == { "help", "print_stats", "print_pmem_regions", "print", "bogus" }

\* the first n regions of a client that registers one line after the other
ManyRegions(n) ==
    { [name |-> "f" \o ToString(i), addr |-> (i + 1) * CACHELINE_SIZE,
       size |-> CACHELINE_SIZE] : i \in 1..n }

\* the wall times a verification can take, in seconds
VerificationTimes == { 1, 2 }

\* what the bytes of the stack buffer hold where read() delivered nothing
UninitStackBytes == { 0, 255 }

VARIABLES
    registered_files,   \* pmem.pmat_registered_files: set of [name, addr, size]
    cache_entries,      \* pmem.pmat_cache_entries: set of cache entries
    write_buffer,       \* pmem.pmat_write_buffer_entries: set of [entry, tid]
    transient,          \* pmem.pmat_transient_addresses: set of [addr, size]
    files,              \* contents of the backing files, by name
    num_verifications,  \* pmem.pmat_num_verifications
    num_bad,            \* pmem.pmat_num_bad_verifications
    should_verify,      \* pmem.pmat_should_verify
    verifier,           \* pmem.pmat_verifier
    status,             \* "running", "aborted" (tl_assert failed), "exited"
    reply,              \* what the latest request returned and the message it printed
    hist,               \* history: the callbacks and requests that ran, latest last
    expected,           \* history: by name, zero overlaid with the tracked stores
    artifacts,          \* the files the crash simulator left in the directory
    stats,              \* pmem.pmat_{mean,ssd,min,max}_verification_time
    child_argv,         \* the argument vector of the latest execv of the verifier
    overrun,            \* bytes the latest tracked store wrote past the data array
    arg,                \* the arguments of the function of the tool that is run on its own
    result              \* what that function returned for arg

vars == << registered_files, cache_entries, write_buffer, transient, files,
           num_verifications, num_bad, should_verify, verifier, status, reply,
           hist, expected, artifacts, stats, child_argv, overrun, arg, result >>

\* the variables of the tool proper
tool_vars == << registered_files, cache_entries, write_buffer, transient, files,
                num_verifications, num_bad, should_verify, verifier, status, reply,
                hist, expected, artifacts, stats, child_argv, overrun >>

(***************************************************************************)
(* Helpers of the tool.                                                    *)
(***************************************************************************)
TRIM_CACHELINE(a) == a - (a % CACHELINE_SIZE)
OFFSET_CACHELINE(a) == a % CACHELINE_SIZE

Max(a, b) == IF a >= b THEN a ELSE b

\* byte i of a machine word in memory (little-endian host)
RECURSIVE ByteOf(_, _)
ByteOf(value, i) == IF i = 0 THEN value % 256 ELSE ByteOf(value \div 256, i - 1)

\* ((1ULL << size) - 1ULL) << startOffset, as the set of the bits that are set
\* in a mask of CACHELINE_SIZE bits
\* the defect of a mask one bit short: (1ULL << (size - 1)) - 1ULL
DirtyMask_short(startOffset, size) ==
    { i \in 0..(CACHELINE_SIZE - 1) : startOffset <= i /\ i < startOffset + size - 1 }

DirtyMask(startOffset, size) ==
    { i \in 0..(CACHELINE_SIZE - 1) : startOffset <= i /\ i < startOffset + size }

ZeroLine == [i \in 0..(CACHELINE_SIZE - 1) |-> 0]

\* memcpy(data + startOffset, &value, size): the bytes that land in the
\* entry's data array
CopyValue(data, startOffset, size, value) ==
    [i \in 0..(CACHELINE_SIZE - 1) |->
        IF startOffset <= i /\ i < startOffset + size
        THEN ByteOf(value, i - startOffset)
        ELSE data[i]]

\* the same memcpy: the number of bytes that land behind the data array, in
\* the memory that follows the node
Overrun(startOffset, size) == Max(0, startOffset + size - CACHELINE_SIZE)

\* the comparator of the lookups by address: lhs is the key (size 0), rhs an
\* element of the table
find_file_by_addr(lhs, rhs) ==
    IF rhs.size = 0
    THEN IF rhs.addr < lhs.addr THEN -1
         ELSE IF rhs.addr > lhs.addr + lhs.size THEN 1
         ELSE 0
    ELSE IF lhs.addr < rhs.addr THEN 1
         ELSE IF lhs.addr > rhs.addr + rhs.size THEN -1
         ELSE 0

find_file_by_name(lhs, rhs) == IF lhs.name = rhs.name THEN 0 ELSE 1

\* OSetGen_LookupWithCmp on the table of registered files with
\* find_file_by_addr: the elements the comparator calls equal to the key
LookupByAddr(regs, a) ==
    { f \in regs : find_file_by_addr([name |-> "", addr |-> a, size |-> 0], f) = 0 }

LookupByName(regs, n) ==
    { f \in regs : find_file_by_name([name |-> n, addr |-> 0, size |-> 0], f) = 0 }

\* the comparator of the transient table: the queried range lies inside a
\* recorded range
cmp_pmat_transient_entries(key, elem) ==
    IF key.addr >= elem.addr /\ key.addr + key.size <= elem.addr + elem.size
    THEN 0 ELSE IF key.addr < elem.addr THEN -1 ELSE 1

\* the defect of a check that never consults the transient table
is_pmem_access_persistent(regs, trans, addr, size) ==
    IF regs = {} THEN FALSE
    ELSE LookupByAddr(regs, addr) # {}

is_pmem_access(regs, trans, addr, size) ==
    IF regs = {} THEN FALSE
    ELSE IF LookupByAddr(regs, addr) # {}
         THEN IF trans = {} THEN TRUE
              ELSE ~ \E t \in trans :
                        cmp_pmat_transient_entries([addr |-> addr, size |-> size], t) = 0
         ELSE FALSE

\* the keys of the two pools: a cache entry by its line address, a
\* write-buffer entry by the line address of the entry it holds
cmp_pmat_cache_entries(lhs, rhs) ==
    IF lhs.addr < rhs.addr THEN -1 ELSE IF lhs.addr > rhs.addr THEN 1 ELSE 0
cmp_pmat_write_buffer_entries(lhs, rhs) == cmp_pmat_cache_entries(lhs.entry, rhs.entry)

CacheLookup(cache, a) == { c \in cache : cmp_pmat_cache_entries([addr |-> a], c) = 0 }
WbLookup(wb, e) ==
    { w \in wb : cmp_pmat_write_buffer_entries([entry |-> e], w) = 0 }

(***************************************************************************)
(* The time statistics.  The tool keeps them in doubles; the model keeps   *)
(* them as exact fractions [n, d] in lowest terms with d > 0, so that the  *)
(* arithmetic of update_stats is the one of the code without its rounding. *)
(***************************************************************************)
RECURSIVE GCD(_, _)
GCD(a, b) == IF b = 0 THEN a ELSE GCD(b, a % b)

Abs(a) == IF a < 0 THEN -a ELSE a

Rat(n, d) ==
    LET g == GCD(Abs(n), d)
    IN  [n |-> n \div g, d |-> d \div g]

RatAdd(x, y) == Rat(x.n * y.d + y.n * x.d, x.d * y.d)
RatSub(x, y) == Rat(x.n * y.d - y.n * x.d, x.d * y.d)
RatMul(x, y) == Rat(x.n * y.n, x.d * y.d)
RatDivInt(x, k) == Rat(x.n, x.d * k)
RatLess(x, y) == x.n * y.d < y.n * x.d

\* the statistics of the zero-initialised pmem after pmat_post_clo_init
Stats0 ==
    [ mean |-> Rat(0, 1), ssd |-> Rat(0, 1), min |-> Rat(0, 1), max |-> Rat(0, 1) ]

\* the defect of an update that squares the first difference
update_stats_squared(st, sec, n) ==
    LET delta1 == RatSub(sec, st.mean)
        mean == RatAdd(st.mean, RatDivInt(delta1, n))
    IN  [st EXCEPT !.mean = mean, !.ssd = RatAdd(@, RatMul(delta1, delta1))]

\* n is pmem.pmat_num_verifications, which the caller has incremented
update_stats(st, sec, n) ==
    LET delta1 == RatSub(sec, st.mean)
        mean == RatAdd(st.mean, RatDivInt(delta1, n))
        delta2 == RatSub(sec, mean)
    IN  [st EXCEPT !.mean = mean, !.ssd = RatAdd(@, RatMul(delta1, delta2))]

\* the lines of simulate_crash after update_stats: VG_MAX, VG_MIN, and the
\* minimum that is still zero
MinMaxStats(st, sec) ==
    LET max == IF RatLess(st.max, sec) THEN sec ELSE st.max
        min == IF RatLess(sec, st.min) THEN sec ELSE st.min
    IN  [st EXCEPT !.max = max, !.min = IF min = Rat(0, 1) THEN sec ELSE min]

(***************************************************************************)
(* The files of a verification and the arguments of the verifier.          *)
(***************************************************************************)
Artifact(file, k, name) == [file |-> file, k |-> k, name |-> name]

\* the defect of a child that names its files by the count before the fork
ChildFiles_stale(nv) ==
    { Artifact(f, nv, "") : f \in {"dump", "stderr", "stdout"} }

\* bad-verification-<k>.dump, .stderr and .stdout: the child opens them with
\* k = pmat_num_verifications + 1
ChildFiles(nv) ==
    { Artifact(f, nv + 1, "") : f \in {"dump", "stderr", "stdout"} }

\* the files the parent unlinks after an exit with status 0, by the count it
\* has incremented
UnlinkedFiles(nv) ==
    { Artifact(f, nv, "") : f \in {"dump", "stderr", "stdout"} }

\* copy_files: <name>.<k>.<suffix> for every registered file
copy_files(regs, nv, suffix) == { Artifact(suffix, nv, f.name) : f \in regs }

\* the digits of n in base ten, most significant first
RECURSIVE Decimal(_)
Decimal(n) == IF n < 10 THEN << n >> ELSE Append(Decimal(n \div 10), n % 10)

\* VG_(snprintf)(buf, size, "%d", n): at most size - 1 characters and the NUL
Snprintf(size, n) ==
    LET d == Decimal(n)
    IN  IF Len(d) <= size - 1 THEN d ELSE SubSeq(d, 1, size - 1)

\* char numFilesStr[3]
NumFilesStrSize == 3

\* the iteration of the table of registered files: ascending keys
cmp_pmat_registered_files1(lhs, rhs) ==
    IF lhs.addr < rhs.addr THEN -1 ELSE IF lhs.addr > rhs.addr THEN 1 ELSE 0

RECURSIVE NamesInOrder(_)
NamesInOrder(regs) ==
    IF regs = {} THEN << >>
    ELSE LET f == CHOOSE x \in regs : \A y \in regs : cmp_pmat_registered_files1(x, y) <= 0
         IN  << f.name >> \o NamesInOrder(regs \ {f})

\* args[] of the child
ChildArgv(verif, regs) ==
    << verif, Snprintf(NumFilesStrSize, Cardinality(regs)) >>
        \o NamesInOrder(regs) \o << NullName >>

(***************************************************************************)
(* The tool's mutable state as one record, so that a callback is the       *)
(* composition of the functions it calls.  Every function gives the set of *)
(* states it can end in: the random evictions, the uninitialised reads,    *)
(* the writes behind an array and the verifier's outcome make several.     *)
(* ok = FALSE: a tl_assert failed, or the memory the tool damaged made it  *)
(* fail, and the tool stopped there.  out: the message of the latest       *)
(* simulate_crash, or the way its verifier ended; took: the wall time of   *)
(* that verifier.  over: the bytes the latest tracked store wrote behind   *)
(* the data array of its entry.  checks: the calls of maybe_simulate_crash *)
(* the callback made so far, each with the lines the write buffer held     *)
(* when it was made: what a crash simulated there finds pending.           *)
(***************************************************************************)
Machine ==
    [ cache |-> cache_entries, wb |-> write_buffer, files |-> files,
      nv |-> num_verifications, nb |-> num_bad, ok |-> TRUE, out |-> "none",
      art |-> artifacts, stats |-> stats, argv |-> child_argv, over |-> overrun,
      took |-> 0, checks |-> << >> ]

\* lseek, read of CACHELINE_SIZE bytes, merge of the dirty bytes, lseek, write
\* of CACHELINE_SIZE bytes; g is what the buffer holds where the file ended
\* before the read filled it
\* the defect of a merge with the test of the dirty bit inverted
MergedFile_inverted(old, off, entry, g) ==
    [k \in 1..Max(Len(old), off + CACHELINE_SIZE) |->
        IF off <= k - 1 /\ k - 1 < off + CACHELINE_SIZE
        THEN IF (k - 1 - off) \notin entry.dirtyBits THEN entry.data[k - 1 - off]
             ELSE IF k <= Len(old) THEN old[k] ELSE g
        ELSE IF k <= Len(old) THEN old[k] ELSE 0]

MergedFile(old, off, entry, g) ==
    [k \in 1..Max(Len(old), off + CACHELINE_SIZE) |->
        IF off <= k - 1 /\ k - 1 < off + CACHELINE_SIZE
        THEN IF (k - 1 - off) \in entry.dirtyBits THEN entry.data[k - 1 - off]
             ELSE IF k <= Len(old) THEN old[k] ELSE g
        ELSE IF k <= Len(old) THEN old[k] ELSE 0]

write_to_file(m, wbentry) ==
    LET found == LookupByAddr(registered_files, wbentry.entry.addr)
    IN  IF found = {} THEN { [m EXCEPT !.ok = FALSE] }
        ELSE UNION {
               LET off == wbentry.entry.addr - realFile.addr
                   old == m.files[realFile.name]
                   gs == IF off + CACHELINE_SIZE <= Len(old) THEN {0} ELSE UninitStackBytes
               IN  { [m EXCEPT !.files[realFile.name] =
                                   MergedFile(old, off, wbentry.entry, g)] : g \in gs }
               : realFile \in found }

\* the loop both evictions and the fence run over the entries they selected,
\* in the order of the iteration (ascending keys): write, then free and remove
RECURSIVE WriteOut(_, _)
WriteOut(m, ws) ==
    IF ws = {} \/ ~m.ok THEN {m}
    ELSE LET w == CHOOSE x \in ws : \A y \in ws : x.entry.addr <= y.entry.addr
         IN  UNION { IF s.ok THEN WriteOut([s EXCEPT !.wb = @ \ {w}], ws \ {w}) ELSE {s}
                       : s \in write_to_file(m, w) }

\* the defect of a fence with the comparison of the thread ids inverted
_do_fence_others(m, tid) ==
    IF m.wb = {} THEN {m}
    ELSE WriteOut(m, { w \in m.wb : w.tid # tid })

\* the defect of a fence that does not compare the thread ids
_do_fence_all(m, tid) ==
    IF m.wb = {} THEN {m}
    ELSE WriteOut(m, m.wb)

_do_fence(m, tid) ==
    IF m.wb = {} THEN {m}
    ELSE WriteOut(m, { w \in m.wb : w.tid = tid })

\* the defect of a bound off by one: the buffer evicts when it is full
WbOverCapacity_full(wb) == Cardinality(wb) >= NUM_WB_ENTRIES
\* the write buffer holds more entries than its capacity
WbOverCapacity(wb) == Cardinality(wb) > NUM_WB_ENTRIES

\* the defect of a write-back that leaves the tid of the new entry unset
do_writeback_untagged(m, entry, tid) ==
    LET m1 == [m EXCEPT !.cache = @ \ {entry}]
    IN  IF LookupByAddr(registered_files, entry.addr) = {}
        THEN { [m1 EXCEPT !.ok = FALSE] }
        ELSE LET exist == WbLookup(m1.wb, entry)
                 collapsed == IF exist = {} THEN {m1} ELSE WriteOut(m1, exist)
             IN  UNION {
                   IF ~m2.ok THEN {m2}
                   ELSE LET m3 == [m2 EXCEPT !.wb = @ \cup {[entry |-> entry, tid |-> 0]}]
                        IN  IF WbOverCapacity(m3.wb)
                            THEN UNION { WriteOut(m3, victims) : victims \in SUBSET m3.wb }
                            ELSE {m3}
                   : m2 \in collapsed }

\* the defect of a write-back that does not remove the entry from the cache
do_writeback_kept(m, entry, tid) ==
    LET m1 == m
    IN  IF LookupByAddr(registered_files, entry.addr) = {}
        THEN { [m1 EXCEPT !.ok = FALSE] }
        ELSE LET exist == WbLookup(m1.wb, entry)
                 collapsed == IF exist = {} THEN {m1} ELSE WriteOut(m1, exist)
             IN  UNION {
                   IF ~m2.ok THEN {m2}
                   ELSE LET m3 == [m2 EXCEPT !.wb = @ \cup {[entry |-> entry, tid |-> tid]}]
                        IN  IF WbOverCapacity(m3.wb)
                            THEN UNION { WriteOut(m3, victims) : victims \in SUBSET m3.wb }
                            ELSE {m3}
                   : m2 \in collapsed }

\* the defect of a write-back that inserts without collapsing the entry the
\* write buffer already holds for the line
do_writeback_uncollapsed(m, entry, tid) ==
    LET m1 == [m EXCEPT !.cache = @ \ {entry}]
    IN  IF LookupByAddr(registered_files, entry.addr) = {}
        THEN { [m1 EXCEPT !.ok = FALSE] }
        ELSE LET m3 == [m1 EXCEPT !.wb = @ \cup {[entry |-> entry, tid |-> tid]}]
             IN  IF WbOverCapacity(m3.wb)
                 THEN UNION { WriteOut(m3, victims) : victims \in SUBSET m3.wb }
                 ELSE {m3}

do_writeback(m, entry, tid) ==
    LET m1 == [m EXCEPT !.cache = @ \ {entry}]
    IN  IF LookupByAddr(registered_files, entry.addr) = {}
        THEN { [m1 EXCEPT !.ok = FALSE] }
        ELSE LET exist == WbLookup(m1.wb, entry)
                 collapsed == IF exist = {} THEN {m1} ELSE WriteOut(m1, exist)
             IN  UNION {
                   IF ~m2.ok THEN {m2}
                   ELSE LET m3 == [m2 EXCEPT !.wb = @ \cup {[entry |-> entry, tid |-> tid]}]
                        IN  IF WbOverCapacity(m3.wb)
                            THEN UNION { WriteOut(m3, victims) : victims \in SUBSET m3.wb }
                            ELSE {m3}
                   : m2 \in collapsed }

\* do_writeback of every selected cache entry, in the order of the iteration
RECURSIVE WritebackAll(_, _, _)
WritebackAll(m, es, tid) ==
    IF es = {} \/ ~m.ok THEN {m}
    ELSE LET e == CHOOSE x \in es : \A y \in es : x.addr <= y.addr
         IN  UNION { WritebackAll(s, es \ {e}, tid) : s \in do_writeback(m, e, tid) }

\* the defect of a flush that writes the line to the file at once
do_flush_through(m, base, tid) ==
    LET exists == CacheLookup(m.cache, TRIM_CACHELINE(base))
    IN  IF exists # {}
        THEN UNION { WriteOut(x, { w \in x.wb : w.entry.addr = TRIM_CACHELINE(base) })
                       : x \in do_writeback(m, CHOOSE e \in exists : TRUE, tid) }
        ELSE {m}

do_flush(m, base, tid) ==
    LET exists == CacheLookup(m.cache, TRIM_CACHELINE(base))
    IN  IF exists # {} THEN do_writeback(m, CHOOSE e \in exists : TRUE, tid) ELSE {m}

\* the parent after a child that ended as o after sec seconds: the counters,
\* the statistics, and the files kept or removed
Verified(m, o, sec) ==
    LET nv == m.nv + 1
        created == m.art \cup ChildFiles(m.nv)
    IN  [m EXCEPT !.nv = nv,
                  !.nb = IF o = "exit0" THEN @ ELSE @ + 1,
                  !.out = o,
                  !.took = sec,
                  !.stats = MinMaxStats(update_stats(@, Rat(sec, 1), nv), Rat(sec, 1)),
                  !.argv = ChildArgv(verifier, registered_files),
                  !.art = IF o = "exit0" THEN created \ UnlinkedFiles(nv)
                          ELSE IF o = "signaled"
                          THEN created \cup copy_files(registered_files, nv, "bad.coredump")
                          ELSE created \cup copy_files(registered_files, nv, "bad")]

\* the defect of a crash that empties the cache and the write buffer of the
\* parent
simulate_crash_losing(m) ==
    IF verifier = NoVerifier THEN { [m EXCEPT !.out = "no_verifier"] }
    ELSE IF registered_files = {} THEN { [m EXCEPT !.out = "no_region"] }
    ELSE { [Verified(m, o, sec) EXCEPT !.cache = {}, !.wb = {}]
             : o \in VerifierOutcomes, sec \in VerificationTimes }

\* the defect of a crash that does not test for a registered region
simulate_crash_unregistered(m) ==
    IF verifier = NoVerifier THEN { [m EXCEPT !.out = "no_verifier"] }
    ELSE { Verified(m, o, sec) : o \in VerifierOutcomes, sec \in VerificationTimes }

\* the defect of a crash that counts only the exit status of a verification
\* failure as bad
simulate_crash_lenient(m) ==
    IF verifier = NoVerifier THEN { [m EXCEPT !.out = "no_verifier"] }
    ELSE IF registered_files = {} THEN { [m EXCEPT !.out = "no_region"] }
    ELSE { [Verified(m, o, sec) EXCEPT !.nb = IF o = "exitBD" THEN m.nb + 1 ELSE m.nb]
             : o \in VerifierOutcomes, sec \in VerificationTimes }

\* the parent's side of the fork; the child never returns
simulate_crash(m) ==
    IF verifier = NoVerifier THEN { [m EXCEPT !.out = "no_verifier"] }
    ELSE IF registered_files = {} THEN { [m EXCEPT !.out = "no_region"] }
    ELSE { Verified(m, o, sec) : o \in VerifierOutcomes, sec \in VerificationTimes }

\* the defect of a random crash that ignores the flag of the client
maybe_simulate_crash_enabled(m) ==
    LET c == [m EXCEPT !.checks = Append(@, { w.entry.addr : w \in m.wb })]
    IN  IF ~m.ok THEN {m}
        ELSE IF verifier = NoVerifier \/ registered_files = {} THEN {c}
        ELSE {c} \cup (IF c.nv < MaxVerifications THEN simulate_crash(c) ELSE {})

\* VG_(random)(NULL) % 100 == 0 or not; the model stops drawing 0 once
\* MaxVerifications verifications ran
maybe_simulate_crash(m) ==
    LET c == [m EXCEPT !.checks = Append(@, { w.entry.addr : w \in m.wb })]
    IN  IF ~m.ok THEN {m}
        ELSE IF ~should_verify \/ verifier = NoVerifier \/ registered_files = {} THEN {c}
        ELSE {c} \cup (IF c.nv < MaxVerifications THEN simulate_crash(c) ELSE {})

\* the defect of a bound off by one: the cache evicts when it is full
CacheOverCapacity_full(cache) == Cardinality(cache) >= NUM_CACHE_ENTRIES
\* the cache holds more entries than its capacity
CacheOverCapacity(cache) == Cardinality(cache) > NUM_CACHE_ENTRIES

\* the defect of a store that looks its line up by the address of the store
trace_pmem_store_untrimmed(m, addr, size, value, tid, ctx, garbage) ==
    IF ~is_pmem_access(registered_files, transient, addr, size) THEN {m}
    ELSE LET startOffset == OFFSET_CACHELINE(addr)
             exists == CacheLookup(m.cache, addr)
             m0 == [m EXCEPT !.over = Overrun(startOffset, size)]
             stopped == IF m0.over > 0 THEN { [m0 EXCEPT !.ok = FALSE] } ELSE {}
         IN  stopped \cup
             IF exists # {}
             THEN LET e == CHOOSE x \in exists : TRUE
                  IN  { [m0 EXCEPT !.cache = (@ \ {e}) \cup
                           { [e EXCEPT !.data = CopyValue(@, startOffset, size, value),
                                       !.lastPendingStore = ctx,
                                       !.dirtyBits = @ \cup DirtyMask(startOffset, size)] }] }
             ELSE LET entry == [ addr |-> TRIM_CACHELINE(addr),
                                 data |-> CopyValue(ZeroLine, startOffset, size, value),
                                 dirtyBits |-> garbage \cup DirtyMask(startOffset, size),
                                 lastPendingStore |-> ctx ]
                      m1 == [m0 EXCEPT !.cache = @ \cup {entry}]
                      evicted == IF CacheOverCapacity(m1.cache)
                                 THEN UNION { WritebackAll(m1, victims, tid)
                                                : victims \in SUBSET m1.cache }
                                 ELSE {m1}
                  IN  UNION { maybe_simulate_crash(x) : x \in evicted }

trace_pmem_store(m, addr, size, value, tid, ctx, garbage) ==
    IF ~is_pmem_access(registered_files, transient, addr, size) THEN {m}
    ELSE LET startOffset == OFFSET_CACHELINE(addr)
             exists == CacheLookup(m.cache, TRIM_CACHELINE(addr))
             m0 == [m EXCEPT !.over = Overrun(startOffset, size)]
             stopped == IF m0.over > 0 THEN { [m0 EXCEPT !.ok = FALSE] } ELSE {}
         IN  stopped \cup
             IF exists # {}
             THEN LET e == CHOOSE x \in exists : TRUE
                  IN  { [m0 EXCEPT !.cache = (@ \ {e}) \cup
                           { [e EXCEPT !.data = CopyValue(@, startOffset, size, value),
                                       !.lastPendingStore = ctx,
                                       !.dirtyBits = @ \cup DirtyMask(startOffset, size)] }] }
             ELSE LET entry == [ addr |-> TRIM_CACHELINE(addr),
                                 data |-> CopyValue(ZeroLine, startOffset, size, value),
                                 dirtyBits |-> garbage \cup DirtyMask(startOffset, size),
                                 lastPendingStore |-> ctx ]
                      m1 == [m0 EXCEPT !.cache = @ \cup {entry}]
                      evicted == IF CacheOverCapacity(m1.cache)
                                 THEN UNION { WritebackAll(m1, victims, tid)
                                                : victims \in SUBSET m1.cache }
                                 ELSE {m1}
                  IN  UNION { maybe_simulate_crash(x) : x \in evicted }

trace_pmem_flush(m, addr, tid) ==
    UNION { maybe_simulate_crash(x) : x \in do_flush(m, addr, tid) }

\* the defect of a flush with fence that checks for a crash after the flush
trace_pmem_flush_fence_checked(m, addr, tid) ==
    LET fence(x) == IF x.ok THEN _do_fence(x, tid) ELSE {x}
        flushed == UNION { maybe_simulate_crash(x) : x \in do_flush(m, addr, tid) }
        fenced == UNION { fence(x) : x \in flushed }
    IN  UNION { maybe_simulate_crash(x) : x \in fenced }

\* the defect of a flush with fence that leaves the fence out
trace_pmem_flush_fence_undrained(m, addr, tid) ==
    UNION { maybe_simulate_crash(x) : x \in do_flush(m, addr, tid) }

trace_pmem_flush_fence(m, addr, tid) ==
    LET fence(x) == IF x.ok THEN _do_fence(x, tid) ELSE {x}
        fenced == UNION { fence(x) : x \in do_flush(m, addr, tid) }
    IN  UNION { maybe_simulate_crash(x) : x \in fenced }

do_fence(m, tid) ==
    LET fence(x) == IF x.ok THEN _do_fence(x, tid) ELSE {x}
        fenced == UNION { fence(x) : x \in maybe_simulate_crash(m) }
    IN  UNION { maybe_simulate_crash(x) : x \in fenced }

(***************************************************************************)
(* The history the properties are stated over.                             *)
(***************************************************************************)
Zeros(n) == [k \in 1..n |-> 0]

\* the image a tracked store leaves in the memory of the region it hits
StoredImage(img, off, size, value) ==
    [k \in 1..Len(img) |->
        IF off <= k - 1 /\ k - 1 < off + size THEN ByteOf(value, k - 1 - off) ELSE img[k]]

ExpectedAfterStore(addr, size, value) ==
    IF ~is_pmem_access(registered_files, transient, addr, size) THEN expected
    ELSE LET f == CHOOSE x \in LookupByAddr(registered_files, addr) : TRUE
         IN  [expected EXCEPT ![f.name] = StoredImage(@, addr - f.addr, size, value)]

\* a callback or request, as the history records it
Op(op, tid, addr, size, value) ==
    [op |-> op, tid |-> tid, addr |-> addr, size |-> size, value |-> value]

last == hist[Len(hist)]

\* the history keeps the latest callback, by its kind and thread
Last(op) == hist' = << Op(op.op, op.tid, 0, 0, 0) >>

\* the history keeps every callback of a scenario of at most MaxHist
Logged(op) ==
    /\ Len(hist) <= MaxHist
    /\ hist' = Append(hist, op)

\* what pmat_handle_client_request returned, and the message of the request
Reply(handled, msg) == [handled |-> handled, msg |-> msg]

\* the callback ends in state m of the tool
Becomes(m) ==
    /\ cache_entries' = m.cache
    /\ write_buffer' = m.wb
    /\ files' = m.files
    /\ num_verifications' = m.nv
    /\ num_bad' = m.nb
    /\ status' = IF m.ok THEN "running" ELSE "aborted"
    /\ reply' = Reply(TRUE, m.out)
    /\ artifacts' = m.art
    /\ stats' = m.stats
    /\ child_argv' = m.argv
    /\ overrun' = m.over
    /\ UNCHANGED << arg, result >>

(***************************************************************************)
(* Initial state: pmat_post_clo_init, after a command line without         *)
(* --pmat-verifier was read.                                               *)
(***************************************************************************)
Started ==
    /\ registered_files = {}
    /\ cache_entries = {}
    /\ write_buffer = {}
    /\ transient = {}
    /\ files = [n \in Names |-> << >>]
    /\ num_verifications = 0
    /\ num_bad = 0
    /\ should_verify = TRUE
    /\ verifier = NoVerifier
    /\ status = "running"
    /\ reply = Reply(TRUE, "none")
    /\ hist = << Op("init", 0, 0, 0, 0) >>
    /\ expected = [n \in Names |-> << >>]
    /\ artifacts = {}
    /\ stats = Stats0
    /\ child_argv = << >>
    /\ overrun = 0

\* the tool as started; no function of the tool is run on its own
Init ==
    /\ Started
    /\ arg = << >>
    /\ result = << >>

(***************************************************************************)
(* The callbacks of the instrumented code, run by thread tid.              *)
(***************************************************************************)
\* the reads of uninitialised memory this store makes: the dirtyBits of the
\* node it allocates, when it allocates one
NewNodeDirtyBits(addr, size) ==
    IF /\ is_pmem_access(registered_files, transient, addr, size)
       /\ CacheLookup(cache_entries, TRIM_CACHELINE(addr)) = {}
    THEN UninitDirtyBits ELSE { {} }

Store(tid, s) ==
    /\ status = "running"
    /\ \E garbage \in NewNodeDirtyBits(s.addr, s.size) :
         \E m \in trace_pmem_store(Machine, s.addr, s.size, s.value, tid, s.ctx, garbage) :
            Becomes(m)
    /\ expected' = ExpectedAfterStore(s.addr, s.size, s.value)
    /\ UNCHANGED << registered_files, transient, should_verify, verifier >>

Flush(tid, addr) ==
    /\ status = "running"
    /\ \E m \in trace_pmem_flush(Machine, addr, tid) : Becomes(m)
    /\ UNCHANGED << registered_files, transient, should_verify, verifier, expected >>

FlushFence(tid, addr) ==
    /\ status = "running"
    /\ \E m \in trace_pmem_flush_fence(Machine, addr, tid) : Becomes(m)
    /\ UNCHANGED << registered_files, transient, should_verify, verifier, expected >>

Fence(tid) ==
    /\ status = "running"
    /\ \E m \in do_fence(Machine, tid) : Becomes(m)
    /\ UNCHANGED << registered_files, transient, should_verify, verifier, expected >>

(***************************************************************************)
(* The client requests.                                                    *)
(***************************************************************************)
\* the defect of a register request that does not test the alignment
Misaligned_never(addr) == FALSE
\* the base address of the request is not the address of a cache line
Misaligned(addr) == TRIM_CACHELINE(addr) # addr

\* PMAT_REGISTER of a region that is not registered (the caller does not
\* register twice)
Register(r) ==
    /\ status = "running"
    /\ r \notin registered_files
    /\ LookupByName(registered_files, r.name) = {}
    /\ IF r.name = NullName
       THEN /\ reply' = Reply(FALSE, "null_name")
            /\ UNCHANGED << registered_files, files, expected >>
       ELSE IF Misaligned(r.addr)
       THEN /\ reply' = Reply(FALSE, "misaligned")
            /\ UNCHANGED << registered_files, files, expected >>
       ELSE /\ registered_files' = registered_files \cup {r}
            /\ files' = [files EXCEPT ![r.name] = Zeros(r.size)]
            /\ expected' = [expected EXCEPT ![r.name] = Zeros(r.size)]
            /\ reply' = Reply(TRUE, "none")
    /\ UNCHANGED << cache_entries, write_buffer, transient, num_verifications, num_bad,
                    artifacts, stats, child_argv, overrun, arg, result, should_verify, verifier,
                    status >>

\* the element the lookup found, if any, leaves the table; nothing else changes
Unregister(found) ==
    /\ \/ found = {} /\ registered_files' = registered_files
       \/ \E f \in found : registered_files' = registered_files \ {f}
    /\ reply' = Reply(TRUE, "none")
    /\ UNCHANGED << cache_entries, write_buffer, transient, files, num_verifications,
                    num_bad, artifacts, stats,
                    child_argv, overrun, arg, result, should_verify, verifier, status, expected >>

UnregisterByName(name) ==
    /\ status = "running"
    /\ Unregister(LookupByName(registered_files, name))

UnregisterByAddr(addr) ==
    /\ status = "running"
    /\ Unregister(LookupByAddr(registered_files, addr))

\* the defect of a transient request that skips no address
TransientLookupFails_never(regs, addr) == FALSE
\* PMAT_TRANSIENT gives up: regions are registered and the lookup of addr
\* found none of them
TransientLookupFails(regs, addr) == regs # {} /\ LookupByAddr(regs, addr) = {}

\* PMAT_TRANSIENT
Transient(addr, size) ==
    /\ status = "running"
    /\ IF TransientLookupFails(registered_files, addr)
       THEN transient' = transient
       ELSE LET entry == [addr |-> addr, size |-> size]
            IN  transient' =
                   IF \E t \in transient : cmp_pmat_transient_entries(entry, t) = 0
                   THEN transient ELSE transient \cup {entry}
    /\ reply' = Reply(TRUE, "none")
    /\ UNCHANGED << registered_files, cache_entries, write_buffer, files,
                    num_verifications, num_bad, artifacts, stats,
                    child_argv, overrun, arg, result, should_verify, verifier, status, expected >>

\* PMAT_CRASH_ENABLE and PMAT_CRASH_DISABLE
CrashEnable ==
    /\ status = "running"
    /\ should_verify' = TRUE
    /\ reply' = Reply(TRUE, "none")
    /\ UNCHANGED << registered_files, cache_entries, write_buffer, transient, files,
                    num_verifications, num_bad, artifacts, stats,
                    child_argv, overrun, arg, result, verifier, status, expected >>

CrashDisable ==
    /\ status = "running"
    /\ should_verify' = FALSE
    /\ reply' = Reply(TRUE, "none")
    /\ UNCHANGED << registered_files, cache_entries, write_buffer, transient, files,
                    num_verifications, num_bad, artifacts, stats,
                    child_argv, overrun, arg, result, verifier, status, expected >>

\* PMAT_FORCE_SIMULATE_CRASH; the model stops forcing crashes once
\* MaxVerifications verifications ran
ForceCrash ==
    /\ status = "running"
    /\ num_verifications < MaxVerifications
    /\ \E m \in simulate_crash(Machine) : Becomes(m)
    /\ UNCHANGED << registered_files, transient, should_verify, verifier, expected >>

\* the defect of a handler that treats RESERVED1 as the other reserved codes
HandleOther_uniform(code) ==
    IF code \notin ToolCodes THEN Reply(FALSE, "none")
    ELSE IF code \in ReservedCodes THEN Reply(FALSE, "deprecated")
    ELSE Reply(FALSE, "unknown")

\* the filter at the top of the handler and the cases of the switch that
\* change nothing: what is returned and which warning is printed
HandleOther(code) ==
    IF code \notin ToolCodes THEN Reply(FALSE, "none")
    ELSE IF code = "RESERVED1" THEN Reply(TRUE, "none")
    ELSE IF code \in ReservedCodes THEN Reply(FALSE, "deprecated")
    ELSE Reply(FALSE, "unknown")

OtherRequest(code) ==
    /\ status = "running"
    /\ reply' = HandleOther(code)
    /\ UNCHANGED << registered_files, cache_entries, write_buffer, transient, files,
                    num_verifications, num_bad, artifacts, stats, child_argv, overrun, arg, result,
                    should_verify, verifier, status, expected >>

\* VG_(keyword_id)("help print_stats print_pmem_regions", word, ...): the
\* index of the keyword, -2 for a word that abbreviates several, -1 for none
keyword_id(word) ==
    IF word = "help" THEN 0
    ELSE IF word = "print_stats" THEN 1
    ELSE IF word = "print_pmem_regions" THEN 2
    ELSE IF word = "print" THEN -2
    ELSE -1

\* handle_gdb_monitor_command, and the request that carries it
GdbMonitor(req) ==
    LET id == keyword_id(req)
    IN  /\ status = "running"
        /\ IF id = -2 THEN reply' = Reply(TRUE, "none") /\ status' = status
           ELSE IF id = -1 THEN reply' = Reply(FALSE, "none") /\ status' = status
           ELSE IF id = 0 THEN reply' = Reply(TRUE, "help") /\ status' = status
           ELSE reply' = reply /\ status' = "aborted"
        /\ UNCHANGED << registered_files, cache_entries, write_buffer, transient, files,
                        num_verifications, num_bad, artifacts, stats, child_argv,
                        overrun, arg, result, should_verify, verifier, expected >>

\* the two counts the report starts its sections with
dump ==
    [ not_persistent |-> Cardinality(cache_entries),
      not_fenced |-> Cardinality(write_buffer) ]

\* the entries a section of the report prints: in the order of the
\* iteration, the first entry of every stack trace
Listed(es) ==
    { e \in es : ~ \E x \in es : x.addr < e.addr /\ x.lastPendingStore = e.lastPendingStore }

\* pmat_fini: the report, which asserts that every entry it prints has a
\* file, then the process ends
Fini ==
    /\ status = "running"
    /\ status' = IF \A e \in Listed(cache_entries)
                               \cup Listed({ w.entry : w \in write_buffer }) :
                       LookupByAddr(registered_files, e.addr) # {}
                 THEN "exited" ELSE "aborted"
    /\ UNCHANGED << registered_files, cache_entries, write_buffer, transient, files,
                    num_verifications, num_bad, artifacts, stats,
                    child_argv, overrun, arg, result, should_verify, verifier, reply,
                    expected >>

(***************************************************************************)
(* The concurrent client: any thread runs any callback at any time.        *)
(***************************************************************************)
Next ==
    \/ \E r \in RegionInputs : Register(r) /\ Last(Op("register", 0, 0, 0, 0))
    \/ \E tid \in Tids, s \in StoreInputs : Store(tid, s) /\ Last(Op("store", tid, 0, 0, 0))
    \/ \E tid \in Tids, a \in FlushInputs : Flush(tid, a) /\ Last(Op("flush", tid, 0, 0, 0))
    \/ \E tid \in Tids, a \in FlushInputs :
          FlushFence(tid, a) /\ Last(Op("flush_fence", tid, 0, 0, 0))
    \/ \E tid \in Tids : Fence(tid) /\ Last(Op("fence", tid, 0, 0, 0))
    \/ Fini /\ Last(Op("fini", 0, 0, 0, 0))

Spec == Init /\ [][Next]_vars

(***************************************************************************)
(* The recorded scenarios: the region is registered, then at most MaxHist  *)
(* stores, flushes and fences on its first line, and the exit, each kept   *)
(* in the history.                                                         *)
(***************************************************************************)
NextScenario ==
    \/ \E r \in RegionInputs :
          /\ Len(hist) = 1
          /\ Register(r)
          /\ hist' = << Op("register", 0, r.addr, r.size, 0) >>
    \/ \E tid \in Tids, s \in ScenarioStores :
          /\ registered_files # {}
          /\ Logged(Op("store", tid, s.addr, s.size, s.value))
          /\ Store(tid, s)
    \/ \E tid \in Tids, a \in ScenarioFlushes :
          /\ registered_files # {}
          /\ Logged(Op("flush", tid, a, 0, 0))
          /\ Flush(tid, a)
    \/ \E tid \in Tids :
          /\ registered_files # {}
          /\ Logged(Op("fence", tid, 0, 0, 0))
          /\ Fence(tid)
    \/ /\ registered_files # {}
       /\ Logged(Op("fini", 0, 0, 0, 0))
       /\ Fini

SpecScenario == Init /\ [][NextScenario]_vars

(***************************************************************************)
(* The client that uses the whole table: it registers and unregisters two  *)
(* regions, declares transient ranges, stores, flushes and fences on one   *)
(* thread, and exits.  The history keeps the latest request with its       *)
(* arguments.                                                              *)
(***************************************************************************)
Req(op, name, addr, size) ==
    [op |-> op, tid |-> RegistryTid, name |-> name, addr |-> addr, size |-> size,
     value |-> 0]

NextRegistry ==
    \/ \E r \in RegistryRegions :
          Register(r) /\ hist' = << Req("register", r.name, r.addr, r.size) >>
    \/ \E n \in Names :
          UnregisterByName(n) /\ hist' = << Req("unregister_by_name", n, 0, 0) >>
    \/ \E a \in RegistryFlushes :
          UnregisterByAddr(a) /\ hist' = << Req("unregister_by_addr", "", a, 0) >>
    \/ \E t \in RegistryTransients :
          Transient(t.addr, t.size) /\ hist' = << Req("transient", "", t.addr, t.size) >>
    \/ \E s \in RegistryStores :
          Store(RegistryTid, s) /\ hist' = << Req("store", "", s.addr, s.size) >>
    \/ \E a \in RegistryFlushes :
          Flush(RegistryTid, a) /\ hist' = << Req("flush", "", a, 0) >>
    \/ Fence(RegistryTid) /\ hist' = << Req("fence", "", 0, 0) >>
    \/ Fini /\ hist' = << Req("fini", "", 0, 0) >>

SpecRegistry == Init /\ [][NextRegistry]_vars

(***************************************************************************)
(* The client of the crash simulator: the tool is started with or without  *)
(* --pmat-verifier; the client registers the region, stores, flushes and   *)
(* fences, switches the crash simulation on and off, forces crashes, and   *)
(* exits.                                                                  *)
(***************************************************************************)
Verifiers == { NoVerifier, "verifier" }

InitCrash ==
    /\ registered_files = {}
    /\ cache_entries = {}
    /\ write_buffer = {}
    /\ transient = {}
    /\ files = [n \in Names |-> << >>]
    /\ num_verifications = 0
    /\ num_bad = 0
    /\ should_verify = TRUE
    /\ verifier \in Verifiers
    /\ status = "running"
    /\ reply = Reply(TRUE, "none")
    /\ hist = << Op("init", 0, 0, 0, 0) >>
    /\ expected = [n \in Names |-> << >>]
    /\ artifacts = {}
    /\ stats = Stats0
    /\ child_argv = << >>
    /\ overrun = 0
    /\ arg = << >>
    /\ result = << >>

NextCrash ==
    \/ \E r \in RegionInputs : Register(r) /\ Last(Op("register", 0, 0, 0, 0))
    \/ \E tid \in Tids, s \in ScenarioStores :
          Store(tid, s) /\ Last(Op("store", tid, 0, 0, 0))
    \/ \E tid \in Tids, a \in ScenarioFlushes :
          Flush(tid, a) /\ Last(Op("flush", tid, 0, 0, 0))
    \/ \E tid \in Tids : Fence(tid) /\ Last(Op("fence", tid, 0, 0, 0))
    \/ CrashEnable /\ Last(Op("crash_enable", 0, 0, 0, 0))
    \/ CrashDisable /\ Last(Op("crash_disable", 0, 0, 0, 0))
    \/ ForceCrash /\ Last(Op("force_crash", 0, 0, 0, 0))
    \/ Fini /\ Last(Op("fini", 0, 0, 0, 0))

SpecCrash == InitCrash /\ [][NextCrash]_vars

(***************************************************************************)
(* The client that forces crash after crash: the region is registered and  *)
(* at most MaxSamples verifications run.  The history keeps the first      *)
(* MaxHist requests, a forced crash with the wall time of its verifier     *)
(* (0: none ran).                                                          *)
(***************************************************************************)
ForceCrashTimed ==
    /\ status = "running"
    /\ num_verifications < MaxSamples
    /\ \E m \in simulate_crash(Machine) :
          /\ Becomes(m)
          /\ Logged(Op("force_crash", 0, 0, 0, m.took))
    /\ UNCHANGED << registered_files, transient, should_verify, verifier, expected >>

NextStats ==
    \/ \E r \in RegionInputs :
          Register(r) /\ Logged(Op("register", 0, r.addr, r.size, 0))
    \/ ForceCrashTimed
    \/ Fini /\ Logged(Op("fini", 0, 0, 0, 0))

SpecStats == InitCrash /\ [][NextStats]_vars

(***************************************************************************)
(* The client with many regions: it has registered up to MaxFiles regions  *)
(* when it forces a crash, and exits.                                      *)
(***************************************************************************)
InitExec ==
    /\ \E n \in 1..MaxFiles :
          /\ registered_files = ManyRegions(n)
          /\ files = [f \in { r.name : r \in ManyRegions(n) } |-> Zeros(CACHELINE_SIZE)]
          /\ expected = [f \in { r.name : r \in ManyRegions(n) } |-> Zeros(CACHELINE_SIZE)]
    /\ cache_entries = {}
    /\ write_buffer = {}
    /\ transient = {}
    /\ num_verifications = 0
    /\ num_bad = 0
    /\ should_verify = TRUE
    /\ verifier \in Verifiers \ {NoVerifier}
    /\ status = "running"
    /\ reply = Reply(TRUE, "none")
    /\ hist = << Op("init", 0, 0, 0, 0) >>
    /\ artifacts = {}
    /\ stats = Stats0
    /\ child_argv = << >>
    /\ overrun = 0
    /\ arg = << >>
    /\ result = << >>

NextExec ==
    \/ ForceCrash /\ Last(Op("force_crash", 0, 0, 0, 0))
    \/ Fini /\ Last(Op("fini", 0, 0, 0, 0))

SpecExec == InitExec /\ [][NextExec]_vars

(***************************************************************************)
(* The client that sends the remaining requests: between its stores and    *)
(* flushes it sends reserved and unknown codes and monitor commands.       *)
(***************************************************************************)
NextRequests ==
    \/ \E r \in RegionInputs :
          Register(r) /\ hist' = << Req("register", r.name, r.addr, r.size) >>
    \/ \E s \in RegistryStores :
          Store(RegistryTid, s) /\ hist' = << Req("store", "", s.addr, s.size) >>
    \/ \E a \in RegistryFlushes :
          Flush(RegistryTid, a) /\ hist' = << Req("flush", "", a, 0) >>
    \/ \E code \in OtherCodes :
          OtherRequest(code) /\ hist' = << Req("request", code, 0, 0) >>
    \/ \E cmd \in MonitorCommands :
          GdbMonitor(cmd) /\ hist' = << Req("monitor", cmd, 0, 0) >>
    \/ Fini /\ hist' = << Req("fini", "", 0, 0) >>

SpecRequests == Init /\ [][NextRequests]_vars

(***************************************************************************)
(* The client that fills the cache: the region is registered, then at most *)
(* MaxHist stores to the first bytes of its lines, flushes of its lines    *)
(* and fences, by any thread, and the exit, each kept in the history.      *)
(***************************************************************************)
EvictionStores ==
    { [addr |-> RegionBase, size |-> 2, value |-> ValX, ctx |-> 1] }
    \cup { [addr |-> RegionBase + l * CACHELINE_SIZE, size |-> 1, value |-> ValW, ctx |-> 2]
             : l \in 1..(RegionLines - 1) }

NextEviction ==
    \/ \E r \in RegionInputs :
          /\ Len(hist) = 1
          /\ Register(r)
          /\ hist' = << Op("register", 0, r.addr, r.size, 0) >>
    \/ \E tid \in Tids, s \in EvictionStores :
          /\ registered_files # {}
          /\ Logged(Op("store", tid, s.addr, s.size, s.value))
          /\ Store(tid, s)
    \/ \E tid \in Tids, a \in FlushInputs :
          /\ registered_files # {}
          /\ Logged(Op("flush", tid, a, 0, 0))
          /\ Flush(tid, a)
    \/ \E tid \in Tids :
          /\ registered_files # {}
          /\ Logged(Op("fence", tid, 0, 0, 0))
          /\ Fence(tid)
    \/ /\ registered_files # {}
       /\ Logged(Op("fini", 0, 0, 0, 0))
       /\ Fini

SpecEviction == Init /\ [][NextEviction]_vars

(***************************************************************************)
(* The client at the edges of a line: it registers a region that ends two  *)
(* bytes into its second line, then at most MaxHist stores, flushes and    *)
(* fences on one thread, and the exit, each kept in the history.  The      *)
(* stores: the first bytes of the region, the first byte of the second     *)
(* line, and two bytes from the last byte of the first line.               *)
(***************************************************************************)
EdgeRegion == [name |-> "r1", addr |-> RegionBase, size |-> CACHELINE_SIZE + 2]
EdgeStores ==
    { [addr |-> RegionBase, size |-> 2, value |-> ValX, ctx |-> 1],
      [addr |-> RegionBase + CACHELINE_SIZE, size |-> 1, value |-> ValW, ctx |-> 2],
      [addr |-> RegionBase + CACHELINE_SIZE - 1, size |-> 2, value |-> ValY, ctx |-> 3] }
EdgeFlushes == { RegionBase, RegionBase + CACHELINE_SIZE }

NextEdge ==
    \/ /\ Len(hist) = 1
       /\ Register(EdgeRegion)
       /\ hist' = << Op("register", 0, EdgeRegion.addr, EdgeRegion.size, 0) >>
    \/ \E s \in EdgeStores :
          /\ registered_files # {}
          /\ Logged(Op("store", RegistryTid, s.addr, s.size, s.value))
          /\ Store(RegistryTid, s)
    \/ \E a \in EdgeFlushes :
          /\ registered_files # {}
          /\ Logged(Op("flush", RegistryTid, a, 0, 0))
          /\ Flush(RegistryTid, a)
    \/ /\ registered_files # {}
       /\ Logged(Op("fence", RegistryTid, 0, 0, 0))
       /\ Fence(RegistryTid)
    \/ /\ registered_files # {}
       /\ Logged(Op("fini", 0, 0, 0, 0))
       /\ Fini

SpecEdge == Init /\ [][NextEdge]_vars

(***************************************************************************)
(* The client that registers what it likes: the regions of the client that *)
(* uses the whole table, a region inside the upper one and a region of no  *)
(* bytes; it unregisters by name and exits.  The history keeps the latest  *)
(* request.                                                                *)
(***************************************************************************)
InnerRegion ==
    [name |-> "r2", addr |-> RegionBase + CACHELINE_SIZE, size |-> CACHELINE_SIZE]
EmptyRegion == [name |-> "r3", addr |-> 0, size |-> 0]
OverlapRegions == RegistryRegions \cup { InnerRegion, EmptyRegion }

NextOverlap ==
    \/ \E r \in OverlapRegions :
          Register(r) /\ hist' = << Req("register", r.name, r.addr, r.size) >>
    \/ \E n \in Names :
          UnregisterByName(n) /\ hist' = << Req("unregister_by_name", n, 0, 0) >>
    \/ Fini /\ hist' = << Req("fini", "", 0, 0) >>

SpecOverlap == Init /\ [][NextOverlap]_vars

(***************************************************************************)
(* The client whose crash checks are recorded: the region is registered,   *)
(* then at most MaxHist stores to the first bytes of its lines, flushes,   *)
(* flushes with fence and fences, by any thread, and the exit.  The        *)
(* history keeps every callback with the crash checks it made.             *)
(***************************************************************************)
Traced(op, tid, addr, size, value, m) ==
    Logged([op |-> op, tid |-> tid, addr |-> addr, size |-> size, value |-> value,
            checks |-> m.checks])

StoreTraced(tid, s) ==
    /\ status = "running"
    /\ \E garbage \in NewNodeDirtyBits(s.addr, s.size) :
         \E m \in trace_pmem_store(Machine, s.addr, s.size, s.value, tid, s.ctx, garbage) :
            Becomes(m) /\ Traced("store", tid, s.addr, s.size, s.value, m)
    /\ expected' = ExpectedAfterStore(s.addr, s.size, s.value)
    /\ UNCHANGED << registered_files, transient, should_verify, verifier >>

FlushTraced(tid, addr) ==
    /\ status = "running"
    /\ \E m \in trace_pmem_flush(Machine, addr, tid) :
          Becomes(m) /\ Traced("flush", tid, addr, 0, 0, m)
    /\ UNCHANGED << registered_files, transient, should_verify, verifier, expected >>

FlushFenceTraced(tid, addr) ==
    /\ status = "running"
    /\ \E m \in trace_pmem_flush_fence(Machine, addr, tid) :
          Becomes(m) /\ Traced("flush_fence", tid, addr, 0, 0, m)
    /\ UNCHANGED << registered_files, transient, should_verify, verifier, expected >>

FenceTraced(tid) ==
    /\ status = "running"
    /\ \E m \in do_fence(Machine, tid) :
          Becomes(m) /\ Traced("fence", tid, 0, 0, 0, m)
    /\ UNCHANGED << registered_files, transient, should_verify, verifier, expected >>

NextTraced ==
    \/ \E r \in RegionInputs :
          /\ Len(hist) = 1
          /\ Register(r)
          /\ hist' = << Op("register", 0, r.addr, r.size, 0) >>
    \/ \E tid \in Tids, s \in EvictionStores :
          registered_files # {} /\ Len(hist) <= MaxHist /\ StoreTraced(tid, s)
    \/ \E tid \in Tids, a \in FlushInputs :
          registered_files # {} /\ Len(hist) <= MaxHist /\ FlushTraced(tid, a)
    \/ \E tid \in Tids, a \in FlushInputs :
          registered_files # {} /\ Len(hist) <= MaxHist /\ FlushFenceTraced(tid, a)
    \/ \E tid \in Tids :
          registered_files # {} /\ Len(hist) <= MaxHist /\ FenceTraced(tid)
    \/ /\ registered_files # {}
       /\ Logged(Op("fini", 0, 0, 0, 0))
       /\ Fini

SpecTraced == Init /\ [][NextTraced]_vars

(***************************************************************************)
(* The client with more lines than the cache: it registers a region of     *)
(* twice the capacity of the cache and one line, stores to the first byte  *)
(* of every line, fences and exits, on one thread: at most MaxHist         *)
(* callbacks, each kept in the history.                                    *)
(***************************************************************************)
CapacityRegion ==
    [name |-> "r1", addr |-> RegionBase, size |-> (2 * NUM_CACHE_ENTRIES + 1) * CACHELINE_SIZE]
CapacityStores ==
    { [addr |-> RegionBase + l * CACHELINE_SIZE, size |-> 1, value |-> ValW, ctx |-> 1]
        : l \in 0..(2 * NUM_CACHE_ENTRIES) }

NextCapacity ==
    \/ /\ Len(hist) = 1
       /\ Register(CapacityRegion)
       /\ hist' = << Op("register", 0, CapacityRegion.addr, CapacityRegion.size, 0) >>
    \/ \E s \in CapacityStores :
          /\ registered_files # {}
          /\ Logged(Op("store", RegistryTid, s.addr, s.size, s.value))
          /\ Store(RegistryTid, s)
    \/ /\ registered_files # {}
       /\ Logged(Op("fence", RegistryTid, 0, 0, 0))
       /\ Fence(RegistryTid)
    \/ /\ registered_files # {}
       /\ Logged(Op("fini", 0, 0, 0, 0))
       /\ Fini

SpecCapacity == Init /\ [][NextCapacity]_vars

(***************************************************************************)
(* The comparator of the stack traces, run on its own: three traces of at  *)
(* most MaxDepth frames with instruction addresses up to MaxIp, innermost  *)
(* frame first, are compared with each other.  The addresses 1 and MaxIp   *)
(* lie in functions with memcpy or memset in their name.                   *)
(***************************************************************************)
StackTraces == UNION { [1..d -> 1..MaxIp] : d \in 1..MaxDepth }

is_ip_memset_memcpy(ip) == ip \in { 1, MaxIp }

\* the loop over the frames from frame i on
RECURSIVE CompareFrames(_, _, _)
CompareFrames(ips1, ips2, i) ==
    IF i > Len(ips1) THEN 0
    ELSE IF ips1[i] > ips2[i] THEN 1
    ELSE IF ips2[i] > ips1[i] THEN -1
    ELSE CompareFrames(ips1, ips2, i + 1)

cmp_exe_context_pointers(ips1, ips2) ==
    IF ips1 = ips2 THEN 0
    ELSE IF Len(ips1) > Len(ips2) THEN 1
    ELSE IF Len(ips2) > Len(ips1) THEN -1
    ELSE LET i == IF \/ ips1[1] = ips2[1]
                     \/ is_ip_memset_memcpy(ips1[1]) /\ is_ip_memset_memcpy(ips2[1])
                  THEN 2 ELSE 1
         IN  CompareFrames(ips1, ips2, i)

InitCompare ==
    /\ Started
    /\ arg \in StackTraces \X StackTraces \X StackTraces
    /\ result = << >>

CompareTraces ==
    /\ result = << >>
    /\ result' = [i \in 1..3 |-> [j \in 1..3 |-> cmp_exe_context_pointers(arg[i], arg[j])]]
    /\ UNCHANGED << tool_vars, arg >>

SpecCompare == InitCompare /\ [][CompareTraces]_vars

(***************************************************************************)
(* The widening of the value of a store, run on its own.  A value is the   *)
(* sequence of its bytes, lowest first; an atom is a temporary or a        *)
(* constant of 1, 8, 16, 32 or 64 bits.                                    *)
(***************************************************************************)
HWordBytes == 8
UIntBytes == 4
Atoms ==
    { [tag |-> t, bits |-> 1, bytes |-> << b >>] : t \in {"RdTmp", "Const"}, b \in {0, 1} }
    \cup UNION { { [tag |-> t, bits |-> 8 * n, bytes |-> v]
                     : t \in {"RdTmp", "Const"}, v \in [1..n -> { 0, 255 }] }
                 : n \in {1, 2, 4, 8} }

\* the bytes of v as an unsigned integer of n bytes: the low bytes of v,
\* zero above them
Unsigned(v, n) == [i \in 1..n |-> IF i <= Len(v) THEN v[i] ELSE 0]

\* Iop_1Uto64, Iop_8Uto64, Iop_16Uto64, Iop_32Uto64
widen_operation(e) == Unsigned(e.bytes, HWordBytes)

\* mkIRExpr_HWord((UInt) con)
widen_const(e) == Unsigned(Unsigned(e.bytes, UIntBytes), HWordBytes)

\* the third argument of the call of trace_pmem_store that is added
add_event_dw_guarded(value) ==
    IF value.tag = "RdTmp" /\ value.bits = 64 THEN value.bytes
    ELSE IF value.tag = "RdTmp" THEN widen_operation(value)
    ELSE widen_const(value)

InitWiden ==
    /\ Started
    /\ arg \in Atoms
    /\ result = << >>

WidenStore ==
    /\ result = << >>
    /\ result' = add_event_dw_guarded(arg)
    /\ UNCHANGED << tool_vars, arg >>

SpecWiden == InitWiden /\ [][WidenStore]_vars

(***************************************************************************)
(* The instrumentation of a superblock, run on its own.  A block is the    *)
(* sequence of its statements; a statement of the instrumented block is    *)
(* the copy of statement i of the input, or a statement that was added     *)
(* while statement i was handled (i = 0 for the count of the block).       *)
(***************************************************************************)
MaxBlock == 2
Statements ==
    { [tag |-> "Ist_NoOp", detail |-> ""],
      [tag |-> "Ist_IMark", detail |-> ""],
      [tag |-> "Ist_WrTmp", detail |-> ""],
      [tag |-> "Ist_Flush", detail |-> "Ifk_flush"],
      [tag |-> "Ist_Flush", detail |-> "Ifk_flushopt"],
      [tag |-> "Ist_MBE", detail |-> "Imbe_Fence"],
      [tag |-> "Ist_MBE", detail |-> "Imbe_SFence"],
      [tag |-> "Ist_MBE", detail |-> "Imbe_CancelReservation"],
      [tag |-> "Ist_Store", detail |-> ""],
      [tag |-> "Ist_StoreG", detail |-> ""],
      [tag |-> "Ist_CAS", detail |-> "single"],
      [tag |-> "Ist_CAS", detail |-> "double"],
      [tag |-> "Ist_LLSC", detail |-> "load"],
      [tag |-> "Ist_LLSC", detail |-> "store"] }
Blocks ==
    { pre \o << [tag |-> "Ist_IMark", detail |-> ""] >> \o body :
        pre \in { << >>, << [tag |-> "Ist_WrTmp", detail |-> ""] >> },
        body \in UNION { [1..n -> Statements] : n \in 0..MaxBlock } }

\* addStmtToIRSB(sbOut, st) of statement i of the input
Copied(i) == [kind |-> "stmt", of |-> i]
\* addStmtToIRSB(sbOut, ...) of a new statement while statement i is handled
Added(kind, i) == [kind |-> kind, of |-> i]

add_flush_event(i, isFence) ==
    << Added(IF isFence THEN "trace_pmem_flush_fence" ELSE "trace_pmem_flush", i) >>

add_simple_event(i, helperName) == << Added(helperName, i) >>

\* a store of a 64-bit temporary: the call alone is added
add_event_dw(i) == << Added("trace_pmem_store", i) >>

make_expr(i) == << Added("Ist_WrTmp", i) >>

\* the Ist_MBE arm, entered with the event that st->Ist.MBE.event reads
MBE_arm(i, event) ==
    << Copied(i) >>
    \o (IF event \in { "Imbe_Fence", "Imbe_SFence" }
        THEN add_simple_event(i, "do_fence") ELSE << >>)

\* the ways one statement of the loop is instrumented.  The Ist_Flush arm
\* has no break and runs on into the Ist_MBE arm, where the event is read
\* from a statement that is not an Ist_MBE: either outcome can be built.
InstrumentStmt(st, i) ==
    CASE st.tag = "Ist_NoOp" -> { << >> }
      [] st.tag \in { "Ist_IMark", "Ist_WrTmp" } -> { << Copied(i) >> }
      [] st.tag = "Ist_Flush" ->
            { << Copied(i) >> \o add_flush_event(i, st.detail = "Ifk_flush")
                 \o MBE_arm(i, event)
              : event \in { "Imbe_Fence", "Imbe_CancelReservation" } }
      [] st.tag = "Ist_MBE" -> { MBE_arm(i, st.detail) }
      [] st.tag \in { "Ist_Store", "Ist_StoreG" } ->
            { << Copied(i) >> \o add_event_dw(i) }
      [] st.tag = "Ist_CAS" ->
            { << Copied(i) >>
              \o (IF st.detail = "double"
                  THEN make_expr(i) \o make_expr(i) \o make_expr(i) \o make_expr(i)
                       \o add_event_dw(i) \o add_event_dw(i)
                  ELSE make_expr(i) \o add_event_dw(i)) }
      [] st.tag = "Ist_LLSC" ->
            { << Copied(i) >>
              \o (IF st.detail = "store" THEN add_event_dw(i) ELSE << >>) }

\* the index of the first Ist_IMark of the block at or after i, or the
\* length of the block plus one
RECURSIVE FirstIMark(_, _)
FirstIMark(bb, i) ==
    IF i > Len(bb) \/ bb[i].tag = "Ist_IMark" THEN i
    ELSE FirstIMark(bb, i + 1)

\* the loop over the statements from i on
RECURSIVE InstrumentFrom(_, _)
InstrumentFrom(bb, i) ==
    IF i > Len(bb) THEN { << >> }
    ELSE { head \o tail : head \in InstrumentStmt(bb[i], i),
                          tail \in InstrumentFrom(bb, i + 1) }

\* the blocks pmat_instrument can return for bb
pmat_instrument(bb) ==
    LET first == FirstIMark(bb, 1)
        preamble == [i \in 1..(first - 1) |-> Copied(i)]
    IN  { preamble \o add_simple_event(0, "add_one_SB_entered") \o rest
          : rest \in InstrumentFrom(bb, first) }

InitInstrument ==
    /\ Started
    /\ arg \in Blocks
    /\ result = << >>

Instrument ==
    /\ result = << >>
    /\ result' \in pmat_instrument(arg)
    /\ UNCHANGED << tool_vars, arg >>

SpecInstrument == InitInstrument /\ [][Instrument]_vars

(***************************************************************************)
(* What the properties read off a state.                                   *)
(***************************************************************************)
TheRegion == CHOOSE r \in RegionInputs : TRUE
TheFile == files[TheRegion.name]

\* the bytes of the line at address l in the backing file of the region
FileLine(fs, l) ==
    [i \in 0..(CACHELINE_SIZE - 1) |-> fs[TheRegion.name][l - TheRegion.addr + i + 1]]
\* the line addresses of the registered region
RegionLineAddrs ==
    IF registered_files = {} THEN {}
    ELSE { TheRegion.addr + k * CACHELINE_SIZE : k \in 0..(RegionLines - 1) }

\* zero overlaid with the stores of the history h, in program order
RECURSIVE ImageOf(_, _)
ImageOf(h, img) ==
    IF h = << >> THEN img
    ELSE ImageOf(Tail(h),
                 IF Head(h).op = "store"
                 THEN StoredImage(img, Head(h).addr - TheRegion.addr, Head(h).size,
                                  Head(h).value)
                 ELSE img)
\* the offsets in the region that the stores of the history h wrote
StoredOffsets(h) ==
    UNION { { h[k].addr - TheRegion.addr + d : d \in 0..(h[k].size - 1) }
              : k \in { j \in DOMAIN h : h[j].op = "store" } }

CacheLines == { e.addr : e \in cache_entries }
WbLines == { w.entry.addr : w \in write_buffer }

(***************************************************************************)
(* C1.  For every thread T and line: when T flushed the line and T later   *)
(* runs a fence, then after that fence the backing file holds every byte   *)
(* that was stored to the line before T's flush (and that no store         *)
(* overwrote since), whatever the other threads did in between.            *)
(***************************************************************************)
C1_FenceAfterFlushPersists ==
    (status = "running" /\ last.op = "fence") =>
        \A i \in 2..(Len(hist) - 1) :
            (hist[i].op = "flush" /\ hist[i].tid = last.tid) =>
                LET before == SubSeq(hist, 1, i - 1)
                    after == SubSeq(hist, i + 1, Len(hist))
                    img == ImageOf(before, Zeros(TheRegion.size))
                IN  \A off \in StoredOffsets(before) \ StoredOffsets(after) :
                        TRIM_CACHELINE(TheRegion.addr + off) = TRIM_CACHELINE(hist[i].addr)
                            => TheFile[off + 1] = img[off + 1]

(***************************************************************************)
(* C2.  One thread, a freshly registered region, the cache below its       *)
(* capacity: after stores that each stay inside one line, then the flush   *)
(* of that line, then the fence, the file holds zero overlaid with the     *)
(* stored bytes in program order, and neither the cache nor the write      *)
(* buffer holds an entry for the line.                                     *)
(***************************************************************************)
StoresFlushFence ==
    /\ Len(hist) >= 4
    /\ hist[1].op = "register"
    /\ \A k \in 2..(Len(hist) - 2) : hist[k].op = "store"
    /\ hist[Len(hist) - 1].op = "flush"
    /\ last.op = "fence"
    /\ \A k \in 2..Len(hist) : hist[k].tid = last.tid

C2_StoreFlushFencePersists ==
    (status = "running" /\ StoresFlushFence) =>
        /\ TheFile = ImageOf(hist, Zeros(TheRegion.size))
        /\ TRIM_CACHELINE(hist[Len(hist) - 1].addr) \notin CacheLines \cup WbLines

\* two stores to the same bytes, then flush and fence: the later value is in the file
C2_Witness ==
    /\ status = "running" /\ StoresFlushFence /\ Len(hist) = 5
    /\ hist[2].value = ValX /\ hist[3].value = ValY
    /\ TheFile[1] = ByteOf(ValY, 0) /\ TheFile[2] = ByteOf(ValY, 1)

(***************************************************************************)
(* C3.  Fence scope: right after on_fence() returned on thread T, the      *)
(* write buffer holds no entry whose tid is T.                             *)
(***************************************************************************)
C3_FenceScope ==
    (status = "running" /\ last.op = "fence") =>
        \A w \in write_buffer : w.tid # last.tid

\* a fence of thread 1 returned, something is in the file, and an entry of
\* thread 2 is still pending
C3_Witness ==
    /\ status = "running" /\ last.op = "fence" /\ last.tid = 1
    /\ \E w \in write_buffer : w.tid = 2
    /\ TheFile # Zeros(TheRegion.size)

(***************************************************************************)
(* C4.  Fence frame: a fence on thread T leaves every write-buffer entry   *)
(* whose tid is not T as it was, leaves the cache as it was, and leaves    *)
(* the file bytes of every line that had no write-buffer entry tagged T    *)
(* as they were.                                                           *)
(***************************************************************************)
C4_FenceFrame ==
    [][ (hist'[Len(hist')].op = "fence" /\ status' = "running") =>
            LET T == hist'[Len(hist')].tid
            IN  /\ cache_entries' = cache_entries
                /\ write_buffer' = { w \in write_buffer : w.tid # T }
                /\ \A l \in RegionLineAddrs :
                      (~ \E w \in write_buffer : w.tid = T /\ w.entry.addr = l)
                          => FileLine(files', l) = FileLine(files, l) ]_vars

\* a fence of thread 2 returned with a line in the cache, an entry of thread
\* 1 pending and bytes in the file
C4_Witness ==
    /\ status = "running" /\ last.op = "fence" /\ last.tid = 2
    /\ cache_entries # {}
    /\ \E w \in write_buffer : w.tid = 1
    /\ TheFile # Zeros(TheRegion.size)

(***************************************************************************)
(* C5.  Scenario 5: a store of X to B on thread 1, then flush(B) and a     *)
(* fence on thread 2, then the exit.  As claimed: the fence on thread 2    *)
(* does not persist the line, the file does not contain X, and the report  *)
(* lists the line as not made persistent.                                  *)
(***************************************************************************)
Scenario5 ==
    hist = << Op("register", 0, TheRegion.addr, TheRegion.size, 0),
              Op("store", 1, RegionBase, 2, ValX),
              Op("flush", 2, RegionBase, 0, 0),
              Op("fence", 2, 0, 0, 0),
              Op("fini", 0, 0, 0, 0) >>

C5_CrossThreadFenceDoesNotPersist ==
    Scenario5 =>
        /\ TheFile = Zeros(TheRegion.size)
        /\ dump.not_persistent >= 1

\* C5, amended: the flush on thread 2 moves the line into the write buffer
\* under thread 2's id, so the fence on thread 2 persists it: the file
\* contains X and the report lists no line as not persistent or not fenced
C5_CrossThreadFencePersists ==
    Scenario5 =>
        /\ status = "exited"
        /\ TheFile = ImageOf(hist, Zeros(TheRegion.size))
        /\ dump = [not_persistent |-> 0, not_fenced |-> 0]

C5_Witness ==
    /\ Scenario5 /\ status = "exited"
    /\ TheFile[1] = ByteOf(ValX, 0) /\ TheFile[2] = ByteOf(ValX, 1)

(***************************************************************************)
(* C6.  Scenario 4: store of X to B, flush(B), store of Y to B, no fence.  *)
(* As claimed: the write buffer holds exactly one entry, the cache holds   *)
(* exactly one entry, and the first bytes of the file are X in             *)
(* little-endian order.                                                    *)
(***************************************************************************)
Kinds(h) == [k \in DOMAIN h |-> << h[k].op, h[k].addr, h[k].size, h[k].value >>]
Scenario4 ==
    Kinds(hist) = << << "register", TheRegion.addr, TheRegion.size, 0 >>,
                     << "store", RegionBase, 2, ValX >>,
                     << "flush", RegionBase, 0, 0 >>,
                     << "store", RegionBase, 2, ValY >> >>

C6_StoreAfterFlushFileHasX ==
    Scenario4 =>
        /\ Cardinality(write_buffer) = 1
        /\ Cardinality(cache_entries) = 1
        /\ TheFile[1] = ByteOf(ValX, 0) /\ TheFile[2] = ByteOf(ValX, 1)

\* C6, amended: one entry in the write buffer, holding X, one entry in the
\* cache, holding Y, and the file still all zero: X is pending in the write
\* buffer until a fence or an eviction writes it
C6_StoreAfterFlushFileStillZero ==
    Scenario4 =>
        /\ status = "running"
        /\ Cardinality(write_buffer) = 1
        /\ Cardinality(cache_entries) = 1
        /\ \A w \in write_buffer :
              /\ w.entry.addr = RegionBase
              /\ w.entry.data[0] = ByteOf(ValX, 0) /\ w.entry.data[1] = ByteOf(ValX, 1)
        /\ \A e \in cache_entries :
              /\ e.addr = RegionBase
              /\ e.data[0] = ByteOf(ValY, 0) /\ e.data[1] = ByteOf(ValY, 1)
        /\ TheFile = Zeros(TheRegion.size)

C6_Witness ==
    /\ Scenario4 /\ status = "running"
    /\ WbLines = {RegionBase} /\ CacheLines = {RegionBase}

(***************************************************************************)
(* C7.  Scenario 1: a tracked store whose line is never flushed and never  *)
(* evicted does not change the file, which stays all zero after the        *)
(* registration, and at the exit its line is counted among the lines that  *)
(* were not made persistent.                                               *)
(***************************************************************************)
StoresNeverFlushed ==
    /\ Len(hist) >= 2
    /\ hist[1].op = "register"
    /\ \A k \in 2..Len(hist) : hist[k].op \in {"store", "fence", "fini"}
    /\ \E k \in 2..Len(hist) : hist[k].op = "store"

C7_UnflushedStoreNotPersisted ==
    StoresNeverFlushed =>
        /\ TheFile = Zeros(TheRegion.size)
        /\ CacheLines = {RegionBase}
        /\ dump.not_persistent = 1
        /\ last.op = "fini" => status = "exited"

C7_Witness ==
    /\ StoresNeverFlushed /\ Len(hist) = 3 /\ status = "exited"
    /\ dump.not_persistent = 1 /\ dump.not_fenced = 0
    /\ TheFile = Zeros(TheRegion.size)

(***************************************************************************)
(* C8.  Disjointness, as claimed: in every reachable state no address has  *)
(* an entry in the cache and an entry in the write buffer.                 *)
(***************************************************************************)
InBoth == CacheLines \cap WbLines

C8_CacheAndWbDisjoint == InBoth = {}

\* C8, amended: an address comes to have an entry in both only by a store
\* that creates a new cache entry for a line whose flushed entry is still
\* pending in the write buffer; no flush, fence or eviction makes one
C8_InBothOnlyByStoreAfterFlush ==
    [][ (InBoth' \ InBoth # {}) =>
            /\ hist'[Len(hist')].op = "store"
            /\ InBoth' \ InBoth \subseteq WbLines \ CacheLines ]_vars

C8_Witness ==
    /\ status = "running" /\ last.op = "store"
    /\ InBoth # {}

(***************************************************************************)
(* C9.  Dirty-bit integrity, as claimed: for every cache entry and every   *)
(* offset i whose dirty bit is 0, data[i] equals the byte at that offset   *)
(* of the line in the backing file.                                        *)
(***************************************************************************)
C9_CleanBytesEqualFile ==
    \A e \in cache_entries :
        \A i \in (0..(CACHELINE_SIZE - 1)) \ e.dirtyBits :
            e.data[i] = FileLine(files, e.addr)[i]

\* C9, amended: for every cache entry and every offset i whose dirty bit is
\* 0, data[i] is 0, the byte the new entry was filled with
C9_CleanBytesAreZero ==
    \A e \in cache_entries :
        \A i \in (0..(CACHELINE_SIZE - 1)) \ e.dirtyBits : e.data[i] = 0

\* an entry created by a store to a line whose earlier bytes are in the file
C9_Witness ==
    \E e \in cache_entries :
        \E i \in (0..(CACHELINE_SIZE - 1)) \ e.dirtyBits :
            /\ e.data[i] = 0
            /\ FileLine(files, e.addr)[i] # 0
            /\ e.dirtyBits # {}

(***************************************************************************)
(* C10.  Uniqueness: in every reachable state no two cache entries have    *)
(* the same line address.                                                  *)
(***************************************************************************)
C10_CacheAddrUnique ==
    \A e1 \in cache_entries, e2 \in cache_entries : e1.addr = e2.addr => e1 = e2

\* two lines in the cache, one of them stored to twice into one entry
C10_Witness ==
    /\ Cardinality(cache_entries) = 2
    /\ \E e \in cache_entries :
          /\ e.addr = RegionBase
          /\ e.data[0] = ByteOf(ValX, 0) /\ e.data[2] = ByteOf(ValZ, 0)

(***************************************************************************)
(* C11: in every reachable state, also after a region was unregistered,    *)
(* the line of every cache entry and of every write-buffer entry lies in   *)
(* exactly one registered region, and the assertion that the file of an    *)
(* entry is found never fails.                                             *)
(***************************************************************************)
RegionsHolding(a) ==
    { f \in registered_files : f.addr <= a /\ a < f.addr + f.size }

C11_EntriesInExactlyOneRegion ==
    /\ status # "aborted"
    /\ \A e \in cache_entries : Cardinality(RegionsHolding(e.addr)) = 1
    /\ \A w \in write_buffer : Cardinality(RegionsHolding(w.entry.addr)) = 1

(***************************************************************************)
(* C12: the lookup by address returns a region exactly when                *)
(* base <= addr < base + size for a registered region, and then that       *)
(* region; the address base + size of a region is not found in it.         *)
(***************************************************************************)
LookupAddrs == 0..(RegionBase + (RegionLines + 1) * CACHELINE_SIZE)

C12_LookupIsHalfOpen ==
    \A a \in LookupAddrs : LookupByAddr(registered_files, a) = RegionsHolding(a)

(***************************************************************************)
(* C13: when a registered region is unregistered by its name, the lookup   *)
(* by address finds nothing afterwards at every address of the region's    *)
(* range [base, base + size), also when other regions are registered.      *)
(***************************************************************************)
C13_UnregisteredRangeIsNotFound ==
    [][ \A f \in registered_files :
          (hist'[1].op = "unregister_by_name" /\ hist'[1].name = f.name)
          => \A a \in f.addr..(f.addr + f.size - 1) :
                LookupByAddr(registered_files', a) = {} ]_vars

InTransient(a, k) ==
    \E t \in transient : t.addr <= a /\ a + k <= t.addr + t.size

C15_TransientStoreIsSuppressed ==
    [][ (hist'[1].op = "store" /\ InTransient(hist'[1].addr, hist'[1].size))
        => UNCHANGED << cache_entries, write_buffer, files >> ]_vars

C15_Witness ==
    /\ last.op = "store"
    /\ InTransient(last.addr, last.size)
    /\ LookupByAddr(registered_files, last.addr) # {}
    /\ cache_entries # {}
    /\ write_buffer # {}

(***************************************************************************)
(* C16: a transient request adds a range only when its address lies inside *)
(* a registered region; when the address is inside no registered region,   *)
(* also when no region is registered at all, the request leaves the        *)
(* transient table unchanged.                                              *)
(***************************************************************************)
C16_TransientOnlyInsideRegion ==
    [][ (hist'[1].op = "transient" /\ RegionsHolding(hist'[1].addr) = {})
        => transient' = transient ]_vars

(***************************************************************************)
(* C17: across a simulated crash the cache entries, the write-buffer       *)
(* entries with their tids, the table of regions and the contents of every *)
(* backing file are the same before and after, however the verifier ends.  *)
(***************************************************************************)
C17_CrashLeavesStateUntouched ==
    [][ hist'[1].op = "force_crash"
        => UNCHANGED << cache_entries, write_buffer, registered_files, files >> ]_vars

C17_Witness ==
    /\ last.op = "force_crash"
    /\ reply.msg = "signaled"
    /\ num_verifications = 1
    /\ cache_entries # {}
    /\ write_buffer # {}
    /\ \E n \in Names : \E k \in 1..Len(files[n]) : files[n][k] # 0

(***************************************************************************)
(* C18: while the crash simulation is disabled, or no verifier is          *)
(* configured, or no region is registered, no store, flush or fence        *)
(* changes the verification count; a crash-enable request sets the flag.   *)
(***************************************************************************)
C18_NoRandomCrashWhenSuppressed ==
    [][ /\ (/\ hist'[1].op \in {"store", "flush", "fence"}
            /\ (~should_verify \/ verifier = NoVerifier \/ registered_files = {}))
           => (num_verifications' = num_verifications /\ num_bad' = num_bad)
        /\ hist'[1].op = "crash_enable" => should_verify' ]_vars

C18_Witness ==
    /\ last.op = "fence"
    /\ ~should_verify
    /\ verifier # NoVerifier
    /\ registered_files # {}
    /\ cache_entries # {}
    /\ \E n \in Names : \E k \in 1..Len(files[n]) : files[n][k] # 0
    /\ num_verifications = 0

C20_BadCountsFailedVerifications ==
    /\ [](0 <= num_bad /\ num_bad <= num_verifications)
    /\ [][ /\ num_verifications' >= num_verifications
           /\ num_bad' >= num_bad
           /\ num_bad' - num_bad <= num_verifications' - num_verifications
           /\ (hist'[1].op = "force_crash" /\ reply'.msg \in VerifierOutcomes)
              => /\ num_verifications' = num_verifications + 1
                 /\ num_bad' = (IF reply'.msg = "exit0" THEN num_bad ELSE num_bad + 1)
                 /\ status' = "running" ]_vars

C20_Witness ==
    /\ last.op = "force_crash"
    /\ reply.msg = "exitOther"
    /\ num_verifications = 1
    /\ num_bad = 1
    /\ status = "running"

(***************************************************************************)
(* C21: the dump, stdout and stderr files of verification k carry the      *)
(* index k the parent counts it by; after the verification they are gone   *)
(* exactly when the verifier exited with 0, and a snapshot <name>.<k>.bad  *)
(* (.bad.coredump after a signal) of every registered region exists       *)
(* exactly when it failed; no file of an earlier verification carries the  *)
(* index k, and every such file is still there.                            *)
(***************************************************************************)
AttemptFiles(k) == { a \in artifacts : a.k = k }

C21_ArtifactsOfAttempt ==
    [][ (hist'[Len(hist')].op = "force_crash" /\ reply'.msg \in VerifierOutcomes) =>
          LET k == num_verifications'
              out == { Artifact(f, k, "") : f \in {"dump", "stdout", "stderr"} }
              snap(suffix) == { Artifact(suffix, k, f.name) : f \in registered_files }
              now == { a \in artifacts' : a.k = k }
          IN  /\ AttemptFiles(k) = {}
              /\ artifacts \subseteq artifacts'
              /\ now = (IF reply'.msg = "exit0" THEN {}
                        ELSE IF reply'.msg = "signaled" THEN out \cup snap("bad.coredump")
                        ELSE out \cup snap("bad")) ]_vars

C21_Witness ==
    /\ last.op = "force_crash"
    /\ num_verifications = 3
    /\ reply.msg = "exitBD"
    /\ AttemptFiles(1) # {}
    /\ AttemptFiles(2) = {}
    /\ \E a \in AttemptFiles(3) : a.file = "bad" /\ a.name \in Names

(***************************************************************************)
(* C23: after n >= 1 verifications with the wall times x_1..x_n, the mean  *)
(* the tool keeps is the arithmetic mean of the times, and its sum of      *)
(* squared differences divided by n is their population variance.          *)
(***************************************************************************)
RECURSIVE Samples(_)
Samples(h) ==
    IF h = << >> THEN << >>
    ELSE LET x == h[Len(h)]
             rest == Samples(SubSeq(h, 1, Len(h) - 1))
         IN  IF x.op = "force_crash" /\ x.value > 0 THEN Append(rest, x.value) ELSE rest

RECURSIVE Sum(_)
Sum(xs) == IF xs = << >> THEN 0 ELSE xs[1] + Sum(Tail(xs))

Squares(xs) == [i \in 1..Len(xs) |-> xs[i] * xs[i]]

C23_WelfordIdentity ==
    LET xs == Samples(hist)
        n == num_verifications
    IN  n >= 1 =>
          /\ Len(xs) = n
          /\ stats.mean.n * n = Sum(xs) * stats.mean.d
          /\ stats.ssd.n * n = (n * Sum(Squares(xs)) - Sum(xs) * Sum(xs)) * stats.ssd.d

C23_Witness ==
    /\ num_verifications = 3
    /\ Samples(hist) = << 1, 2, 2 >>
    /\ stats.mean = [n |-> 5, d |-> 3]
    /\ stats.ssd = [n |-> 2, d |-> 3]

(***************************************************************************)
(* C22: the verifier is executed with the arguments verifier path, the     *)
(* number N of registered regions in full decimal notation, the N          *)
(* registered names, each once, and the terminating null.                  *)
(***************************************************************************)
RECURSIVE DigitsValue(_)
DigitsValue(ds) ==
    IF ds = << >> THEN 0 ELSE 10 * DigitsValue(SubSeq(ds, 1, Len(ds) - 1)) + ds[Len(ds)]

C22_ArgvOfVerifier ==
    child_argv # << >> =>
        LET N == Cardinality(registered_files)
        IN  /\ Len(child_argv) = N + 3
            /\ child_argv[1] = verifier
            /\ DigitsValue(child_argv[2]) = N
            /\ { child_argv[i] : i \in 3..(N + 2) } = { f.name : f \in registered_files }
            /\ child_argv[N + 3] = NullName

(***************************************************************************)
(* C24 as stated: every reserved code and every unknown code of the tool   *)
(* prints a warning, is returned as not handled, and changes no state of   *)
(* the tool.                                                               *)
(***************************************************************************)
ToolStateUnchanged ==
    UNCHANGED << registered_files, cache_entries, write_buffer, transient, files,
                 num_verifications, num_bad, should_verify, verifier, status,
                 artifacts, stats >>

C25_MonitorCommandsAreHandled ==
    [][ hist'[1].op = "monitor" =>
          /\ status' = "running"
          /\ hist'[1].name \in {"help", "print_stats", "print_pmem_regions"}
             => reply'.handled
          /\ hist'[1].name = "bogus" => ~reply'.handled ]_vars

(***************************************************************************)
(* C29: a tracked store that creates a cache entry leaves in its dirty     *)
(* mask exactly the bits off .. off + size - 1, whatever the storage of    *)
(* the entry held before; a store to an existing entry adds these bits to  *)
(* the old mask; in both cases the data bytes off .. off + size - 1 hold   *)
(* the bytes of the value.                                                 *)
(***************************************************************************)
C29_DirtyMaskOfStore ==
    [][ (Len(hist') = Len(hist) + 1 /\ hist'[Len(hist')].op = "store") =>
          LET s == hist'[Len(hist')]
              line == TRIM_CACHELINE(s.addr)
              off == OFFSET_CACHELINE(s.addr)
              bits == { i \in 0..(CACHELINE_SIZE - 1) : off <= i /\ i < off + s.size }
              old == { c \in cache_entries : c.addr = line }
          IN  \A e \in cache_entries' :
                 e.addr = line =>
                    /\ e.dirtyBits = bits \cup UNION { c.dirtyBits : c \in old }
                    /\ \A i \in bits : e.data[i] = ByteOf(s.value, i - off) ]_vars

(***************************************************************************)
(* C27: the write buffer never holds two entries for one line; and when a  *)
(* flush moves a line into the write buffer that already holds an entry    *)
(* for the line, the dirty bytes of that entry are in the file afterwards, *)
(* below those of the new entry if the new entry was written too, the old  *)
(* entry is gone, and the write buffer holds for the line at most the new  *)
(* entry, tagged with the thread of the flush.                             *)
(***************************************************************************)
LineAfter(bytes, entry) ==
    [i \in 0..(CACHELINE_SIZE - 1) |->
        IF i \in entry.dirtyBits THEN entry.data[i] ELSE bytes[i]]

C27_CollapseWritesTheOlderFlushFirst ==
    /\ [](\A w1, w2 \in write_buffer : w1.entry.addr = w2.entry.addr => w1 = w2)
    /\ [][ ( /\ Len(hist') = Len(hist) + 1
             /\ hist'[Len(hist')].op = "flush"
             /\ TRIM_CACHELINE(hist'[Len(hist')].addr) \in CacheLines \cap WbLines ) =>
             LET f == hist'[Len(hist')]
                 line == TRIM_CACHELINE(f.addr)
                 older == CHOOSE w \in write_buffer : w.entry.addr = line
                 newer == CHOOSE e \in cache_entries : e.addr = line
                 inserted == [entry |-> newer, tid |-> f.tid]
                 collapsed == LineAfter(FileLine(files, line), older.entry)
             IN  /\ status' = "running"
                 /\ { w \in write_buffer' : w.entry.addr = line } \subseteq {inserted}
                 /\ FileLine(files', line) =
                       IF inserted \in write_buffer' THEN collapsed
                       ELSE LineAfter(collapsed, newer) ]_vars

\* a second flush of the line collapsed an entry whose bytes differ from those
\* of the new entry: the file has the older bytes, the write buffer the newer
C27_Witness ==
    /\ Len(hist) = 5
    /\ Kinds(hist) = << << "register", RegionBase, RegionLines * CACHELINE_SIZE, 0 >>,
                        << "store", RegionBase, 2, ValX >>, << "flush", RegionBase, 0, 0 >>,
                        << "store", RegionBase, 2, ValY >>, << "flush", RegionBase, 0, 0 >> >>
    /\ hist[3].tid = 1 /\ hist[5].tid = 2
    /\ FileLine(files, RegionBase)[0] = ByteOf(ValX, 0)
    /\ \E w \in write_buffer : w.tid = 2 /\ w.entry.data[0] = ByteOf(ValY, 0)

(***************************************************************************)
(* C26: a line of a backing file changes only in a step that has the line  *)
(* in the write buffer or moves it there from the cache; a fence changes   *)
(* only lines whose entry is tagged with the fencing thread; a store or a  *)
(* flush changes a file only if the write buffer went over its capacity,   *)
(* or if it moved into the write buffer a line the write buffer already    *)
(* held: by a flush (the claim as stated), or by a flush or a cache        *)
(* eviction (the claim as the code has it).                                *)
(***************************************************************************)
\* the lines the step moved from the cache to the write buffer
Moved ==
    LET s == hist'[Len(hist')]
        stored == IF s.op = "store" THEN {TRIM_CACHELINE(s.addr)} ELSE {}
    IN  (CacheLines \cup stored) \ { e.addr : e \in cache_entries' }

WbWentOverCapacity == Cardinality(WbLines \cup Moved) > NUM_WB_ENTRIES

ChangedLines == { l \in RegionLineAddrs : FileLine(files', l) # FileLine(files, l) }

PathToFile(collapse) ==
    (Len(hist') = Len(hist) + 1 /\ hist'[Len(hist')].op \in {"store", "flush", "fence"}) =>
       LET s == hist'[Len(hist')]
       IN  /\ Len(files'[TheRegion.name]) = Len(files[TheRegion.name])
           /\ ChangedLines \subseteq WbLines \cup Moved
           /\ s.op = "fence" =>
                 ChangedLines \subseteq { w.entry.addr : w \in { x \in write_buffer : x.tid = s.tid } }
           /\ (s.op # "fence" /\ files' # files) => WbWentOverCapacity \/ collapse

C26_FileChangesOnlyByFenceEvictionOrFlushCollapse ==
    [][ PathToFile(hist'[Len(hist')].op = "flush" /\ Moved \cap WbLines # {}) ]_vars

C26_FileChangesOnlyByFenceEvictionOrCollapse ==
    [][ PathToFile(Moved \cap WbLines # {}) ]_vars

\* the store to the second line evicted the first line from the cache, the
\* write buffer held the first line and collapsed: the file has the bytes of
\* the first store, and the write buffer, never over its capacity, the bytes
\* of the second
C26_Witness ==
    /\ Len(hist) = 5
    /\ Kinds(hist) = << << "register", RegionBase, RegionLines * CACHELINE_SIZE, 0 >>,
                        << "store", RegionBase, 2, ValX >>, << "flush", RegionBase + 1, 0, 0 >>,
                        << "store", RegionBase, 2, ValX >>,
                        << "store", RegionBase + CACHELINE_SIZE, 1, ValW >> >>
    /\ FileLine(files, RegionBase)[0] = ByteOf(ValX, 0)
    /\ WbLines = {RegionBase}
    /\ CacheLines = {RegionBase + CACHELINE_SIZE}

(***************************************************************************)
(* C28: the write-backs of a fence change in the backing file exactly the  *)
(* dirty bytes of the entries they write, to the entries' data bytes: the  *)
(* file keeps its length, and a byte of the file that differs after the    *)
(* fence is a dirty byte of an entry the write buffer held, and has the    *)
(* value of the entry's data byte.                                         *)
(***************************************************************************)
C28_WriteBackChangesOnlyDirtyBytes ==
    [][ (Len(hist') = Len(hist) + 1 /\ hist'[Len(hist')].op = "fence") =>
          \A f \in registered_files :
             /\ Len(files'[f.name]) = Len(files[f.name])
             /\ \A k \in 1..Len(files[f.name]) :
                   files'[f.name][k] # files[f.name][k] =>
                      \E w \in write_buffer :
                         LET i == f.addr + k - 1 - w.entry.addr
                         IN  /\ i \in w.entry.dirtyBits
                             /\ files'[f.name][k] = w.entry.data[i] ]_vars

(***************************************************************************)
(* C30: a tracked store with off + size > CACHELINE_SIZE writes no byte    *)
(* outside the data array of its entry, sets no dirty bit at or above      *)
(* CACHELINE_SIZE, writes the entry's data only at the indices from off,   *)
(* and the tool keeps running.                                             *)
(***************************************************************************)
C30_SpanningStoreStaysInsideTheEntry ==
    [][ ( /\ Len(hist') = Len(hist) + 1
          /\ hist'[Len(hist')].op = "store"
          /\ OFFSET_CACHELINE(hist'[Len(hist')].addr) + hist'[Len(hist')].size
                > CACHELINE_SIZE ) =>
          LET s == hist'[Len(hist')]
              off == OFFSET_CACHELINE(s.addr)
          IN  /\ overrun' = 0
              /\ status' = "running"
              /\ \A e \in cache_entries' :
                    /\ e.dirtyBits \subseteq 0..(CACHELINE_SIZE - 1)
                    /\ DOMAIN e.data = 0..(CACHELINE_SIZE - 1)
                    /\ e.addr = TRIM_CACHELINE(s.addr) =>
                          \A i \in off..(CACHELINE_SIZE - 1) :
                             e.data[i] = ByteOf(s.value, i - off) ]_vars

(***************************************************************************)
(* C31: in every reachable state the backing file of a registered region   *)
(* has exactly as many bytes as the region was registered with.            *)
(***************************************************************************)
C31_FileSizeIsFixed ==
    \A f \in registered_files : Len(files[f.name]) = f.size

(***************************************************************************)
(* C32: in every reachable state every registered region has a base that   *)
(* is the address of a cache line and a size above zero, and no two        *)
(* registered regions have a byte in common.                               *)
(***************************************************************************)
C32_RegionsAlignedNonEmptyDisjoint ==
    \A f \in registered_files :
       /\ TRIM_CACHELINE(f.addr) = f.addr
       /\ f.size > 0
       /\ \A g \in registered_files \ {f} :
             f.addr + f.size <= g.addr \/ g.addr + g.size <= f.addr

(***************************************************************************)
(* C33: when a flush with fence returns, the write buffer holds no entry   *)
(* (the claim as stated); it holds no entry tagged with the calling        *)
(* thread, none for the flushed line if the line was in the cache, and no  *)
(* entry it did not hold before (the claim as the code has it).            *)
(***************************************************************************)
FlushFenceReturned ==
    /\ Len(hist') = Len(hist) + 1
    /\ hist'[Len(hist')].op = "flush_fence"
    /\ status' = "running"

C33_FlushFenceDrainsWholeBuffer ==
    [][ FlushFenceReturned => write_buffer' = {} ]_vars

C33_FlushFenceDrainsCallingThread ==
    [][ FlushFenceReturned =>
          LET f == hist'[Len(hist')]
              line == TRIM_CACHELINE(f.addr)
          IN  /\ \A w \in write_buffer' : w.tid # f.tid /\ w \in write_buffer
              /\ line \in CacheLines => line \notin { w.entry.addr : w \in write_buffer' }
              /\ line \notin { e.addr : e \in cache_entries' } ]_vars

\* thread 2 flushed and fenced the second line while the first line, flushed
\* by thread 1, was pending: the second line is in the file, the first line
\* still in the write buffer
C33_Witness ==
    /\ Len(hist) = 5
    /\ hist[5].op = "flush_fence" /\ hist[5].tid = 2
    /\ TRIM_CACHELINE(hist[5].addr) = RegionBase + CACHELINE_SIZE
    /\ hist[4].op = "store" /\ hist[4].addr = RegionBase + CACHELINE_SIZE
    /\ status = "running"
    /\ FileLine(files, RegionBase + CACHELINE_SIZE)[0] = ByteOf(ValW, 0)
    /\ \E w \in write_buffer : w.tid = 1 /\ w.entry.addr = RegionBase
    /\ \A w \in write_buffer : w.tid # 2

(***************************************************************************)
(* C34: a flush with fence makes one crash check, after the drain: the     *)
(* check finds the write buffer as the call leaves it, without the line    *)
(* the call moved there from the cache.                                    *)
(***************************************************************************)
C34_OneCrashCheckAfterTheDrain ==
    [][ FlushFenceReturned =>
          LET f == hist'[Len(hist')]
              line == TRIM_CACHELINE(f.addr)
          IN  /\ Len(f.checks) = 1
              /\ f.checks[1] = { w.entry.addr : w \in write_buffer' }
              /\ line \in CacheLines => line \notin f.checks[1] ]_vars

\* the flush with fence moved the second line from the cache while the
\* first line was pending: its crash check found the first line only
C34_Witness ==
    /\ Len(hist) = 5
    /\ hist[5].op = "flush_fence"
    /\ TRIM_CACHELINE(hist[5].addr) = RegionBase + CACHELINE_SIZE
    /\ hist[4].op = "store" /\ hist[4].addr = RegionBase + CACHELINE_SIZE
    /\ hist[4].tid # hist[5].tid
    /\ status = "running"
    /\ hist[5].checks = << {RegionBase} >>
    /\ CacheLines = {}

(***************************************************************************)
(* C35: every store to a registered address that is not transient ends     *)
(* with a crash check, whether it made a new cache entry or wrote to one   *)
(* the cache held; a fence makes a crash check before and one after its    *)
(* drain, and a flush makes one after it.                                  *)
(***************************************************************************)
C35_CallbacksEndWithCrashCheck ==
    [][ (Len(hist') = Len(hist) + 1 /\ status' = "running") =>
          LET c == hist'[Len(hist')]
              after == { w.entry.addr : w \in write_buffer' }
          IN  /\ c.op = "store" /\ is_pmem_access(registered_files, transient, c.addr, c.size)
                 => Len(c.checks) = 1 /\ c.checks[1] = after
              /\ c.op = "flush" => Len(c.checks) = 1 /\ c.checks[1] = after
              /\ c.op = "fence" => c.checks = << WbLines, after >> ]_vars

(***************************************************************************)
(* C36: the number of cache entries never exceeds a bound fixed by the     *)
(* capacity of the cache: not the capacity, at which the eviction starts,  *)
(* and not twice the capacity, the size the pool of the entries is made    *)
(* with.                                                                   *)
(***************************************************************************)
C36_CacheIsBounded ==
    Cardinality(cache_entries) <= 2 * NUM_CACHE_ENTRIES

(***************************************************************************)
(* C37: for every byte of a registered region, the value the latest        *)
(* tracked store gave it (zero if none did) is the data byte of the cache  *)
(* entry that has the byte dirty; or, if the cache has none, of the write- *)
(* buffer entry that has it dirty; or, if neither has, the byte of the     *)
(* backing file.                                                           *)
(***************************************************************************)
HoldingDirty(entries, a) ==
    { e \in entries : e.addr = TRIM_CACHELINE(a) /\ OFFSET_CACHELINE(a) \in e.dirtyBits }

C37_LatestStoreIsNeverLost ==
    \A f \in registered_files : \A k \in 1..f.size :
       LET a == f.addr + k - 1
           i == OFFSET_CACHELINE(a)
           c == HoldingDirty(cache_entries, a)
           w == HoldingDirty({ x.entry : x \in write_buffer }, a)
           latest == expected[f.name][k]
       IN  IF c # {} THEN \A e \in c : e.data[i] = latest
           ELSE IF w # {} THEN \A e \in w : e.data[i] = latest
           ELSE k <= Len(files[f.name]) /\ files[f.name][k] = latest

(***************************************************************************)
(* C38: the comparator of the stack traces never calls traces of           *)
(* different depth equal, calls traces of one depth equal exactly if they  *)
(* agree frame by frame once an innermost frame in memcpy or memset is     *)
(* skipped, and is a strict weak order: comparing b with a gives the       *)
(* opposite of comparing a with b, and traces it calls equal compare the   *)
(* same way with every third trace.                                        *)
(***************************************************************************)
SameOrigin(a, b) ==
    /\ Len(a) = Len(b)
    /\ \A i \in 2..Len(a) : a[i] = b[i]
    /\ a[1] = b[1] \/ (is_ip_memset_memcpy(a[1]) /\ is_ip_memset_memcpy(b[1]))

C38_ComparatorIsStrictWeakOrder ==
    result # << >> =>
       \A i, j, k \in 1..3 :
          /\ (result[i][j] = 0) = SameOrigin(arg[i], arg[j])
          /\ result[j][i] = 0 - result[i][j]
          /\ result[i][j] = 0 => result[i][k] = result[j][k]

(***************************************************************************)
(* C40: the value passed to trace_pmem_store is the stored value           *)
(* zero-extended to the machine word, for a temporary and for a constant   *)
(* of 1, 8, 16, 32 or 64 bits; the bytes of a 64-bit constant are all      *)
(* kept.                                                                   *)
(***************************************************************************)
C40_StoredValueIsZeroExtended ==
    result # << >> =>
       /\ Len(result) = HWordBytes
       /\ \A i \in 1..HWordBytes :
             result[i] = IF i <= Len(arg.bytes) THEN arg.bytes[i] ELSE 0

\* the indexes from i to n that are in keep, in order
RECURSIVE Kept(_, _, _)
Kept(n, i, keep) ==
    IF i > n THEN << >>
    ELSE (IF i \in keep THEN << i >> ELSE << >>) \o Kept(n, i + 1, keep)

\* the statements of the input that the instrumented block copies, in the
\* order of the copies
CopiesOf(sbOut) ==
    LET at == Kept(Len(sbOut), 1, { k \in 1..Len(sbOut) : sbOut[k].kind = "stmt" })
    IN  [k \in 1..Len(at) |-> sbOut[at[k]].of]

\* the number of statements of kind kinds added for statement i
AddedFor(sbOut, i, kinds) ==
    Cardinality({ k \in 1..Len(sbOut) : sbOut[k].of = i /\ sbOut[k].kind \in kinds })

(***************************************************************************)
(* C39: the instrumented block holds every statement of the input block    *)
(* that is not a NoOp exactly once and in the order of the input, and a    *)
(* flush statement is followed by exactly one trace_pmem_flush or          *)
(* trace_pmem_flush_fence callback and by no do_fence callback.            *)
(***************************************************************************)
C39_BlockIsCopiedOnceInOrder ==
    result # << >> =>
       /\ CopiesOf(result)
            = Kept(Len(arg), 1, { i \in 1..Len(arg) : arg[i].tag # "Ist_NoOp" })
       /\ \A i \in 1..Len(arg) :
             arg[i].tag = "Ist_Flush" =>
                /\ AddedFor(result, i, { "trace_pmem_flush", "trace_pmem_flush_fence" }) = 1
                /\ AddedFor(result, i, { "do_fence" }) = 0

====
